---- MODULE Spec2Model ----
(***************************************************************************)
(* nvidiagpu_top: the correlation store (src/src/data.rs), the process     *)
(* supervisor (src/src/process.rs) and the consumer loop (src/src/app.rs). *)
(*                                                                         *)
(* Time is counted in whole seconds; Instant::now() is the variable now.   *)
(***************************************************************************)
EXTENDS Integers, Sequences, FiniteSets, TLC

\* ------------------------------------------------------------------ bounds
MaxCapacity == 3      \* largest --history value explored (0..MaxCapacity)
MaxPushes == 6        \* add_sample calls explored in the history specification
MaxTime == 6          \* the clock runs 0..MaxTime
MaxEmit == 2          \* data messages the three tasks produce in a run
FullBudget == 1       \* data messages read or queried once the channel is nearly full
MaxGap == 1           \* seconds that may pass between the two Instant::now()
                      \* reads of add_process_sample

\* ------------------------------------------------------- program constants
CHANNEL_CAPACITY == 200  \* mpsc::channel(200), process.rs:111
STALE_SECS == 5       \* Duration::from_secs(5), data.rs:181
DEFAULT_HISTORY == 300  \* #[arg(long, default_value = "300")], main.rs:15
None == -1            \* Option::None of an Option<u32> field

\* --------------------------------------------------------------- input sets
GpuIdx == {0, 1}
Pids == {100, 101}
SmUtils == {None, 42}

VARIABLES
    now,              \* Instant::now(), in seconds
    \* ---- DataStore (data.rs:106-127)
    gpus,             \* gpu_idx -> GpuHistory.samples (a sequence, oldest first)
    max_samples,      \* DataStore.max_samples (= every GpuHistory.max_samples)
    total_samples,
    processes,        \* (gpu_idx, pid) -> ProcessInfo
    compute_apps,     \* Vec<ComputeApp>
    process_sys_info, \* pid -> ProcessSystemInfo
    gpu_info,         \* index -> GpuInfo
    topology,         \* Option<GpuTopology>
    \* ---- App (app.rs:53-60)
    error,            \* Option<String>, the error slot
    app_pc,           \* where App::run stands
    \* ---- NvidiaMonitor::spawn (process.rs:110-224)
    rx,               \* the receiver: "none" before spawn, "alive", "dropped"
    chan,             \* the messages buffered in the mpsc channel, oldest first
    child,            \* dmon / pmon child process: "none", "running", "killed"
    pc,               \* task -> where the spawned task stands
    pending,          \* task -> the message it is sending (Option)
    query_pids,       \* the pids collected by the periodic task for ps
    hung,             \* the external tool that has hung for good, or "none"
    budget,           \* data messages the tools' output will still yield (the
                      \* empty ps result for no pids is not tool output)
    \* ---- history of the run, read only by the properties
    pushes,           \* gpu_idx -> number of push calls on that device's history
    last_op,          \* the operation applied last, with its arguments
    emitted,          \* task -> the kinds of the messages it handed to send, for
                      \* the sends that returned
    applied,          \* task -> [count, last]: how many of its messages the
                      \* consumer applied, and the ordinal of the last one
    applied_kinds,    \* the kinds of message applied to the store so far
    spawned,          \* child -> how many times the process was spawned
    stream_end,       \* child -> how its reader saw the stream end, or "none"
    send_failed,      \* task -> its last send returned Err
    topo_queries,     \* the outcomes of the topology queries made, in order
    selected_gpu,     \* App.selected_gpu: the position of the selected device
    overlay,          \* App.overlay: "None", "Info" or "Topology"
    view_mode,        \* App.view_mode: "Dashboard" or "Charts"
    last_query        \* how the one-shot query ended whose result the
                      \* periodic task is sending ("exit_ok", "exit_err",
                      \* "not_run"), "none" when it is sending nothing

storeVars == <<gpus, max_samples, total_samples, processes, compute_apps,
               process_sys_info, gpu_info, topology>>
pipeVars == <<error, app_pc, rx, chan, child, pc, pending, query_pids, hung,
              budget, emitted, applied, applied_kinds, spawned, stream_end, send_failed,
              topo_queries, last_query>>
uiVars == <<selected_gpu, overlay, view_mode>>
vars == <<now, storeVars, pipeVars, uiVars, pushes, last_op>>

\* Option<T> of a value that is no number: None is Absent, Some(x) is <<x>>.
Absent == <<>>
Some(x) == <<x>>

\* The spawned tasks, named by what they read: the two streaming children and
\* the periodic query task.
Streams == {"dmon", "pmon"}
Tasks == {"dmon", "pmon", "query"}
\* The external tools that can hang: the two children and the three one-shot
\* invocations.
Tools == {"dmon", "pmon", "query_gpu", "compute_apps", "ps"}

\* A variant of run_entry that goes straight to the spawn.
run_entry_skips_topology == "spawn"

\* App::run starts with the topology query (app.rs:76), then spawns.
run_entry == "topology"

\* ------------------------------------------------------------ GpuHistory
\* A TimestampedSample; n is the ordinal of the push that stored it (history
\* of the run, not a field of the program).
TimestampedSample(sample, ts, n) == [sample |-> sample, timestamp |-> ts, n |-> n]

\* GpuHistory::push: pop_front when len >= max_samples (a no-op on an empty
\* deque), then push_back.
push(samples, cap, entry) ==
    Append(IF Len(samples) >= cap /\ samples # <<>> THEN Tail(samples) ELSE samples,
           entry)

\* GpuHistory::len
len(samples) == Len(samples)

\* ------------------------------------------------------------- HashMap
\* HashMap::new
EmptyMap == [k \in {} |-> 0]

\* HashMap::insert (also entry(k).or_insert_with(..) followed by a write)
insert(m, key, val) == [k \in DOMAIN m \cup {key} |-> IF k = key THEN val ELSE m[k]]

\* HashMap::retain
retain(m, keep(_, _)) ==
    [k \in {x \in DOMAIN m : keep(x, m[x])} |-> m[k]]

\* ------------------------------------------------------------- DataStore
\* As if add_sample rebuilt the map from the device of the sample alone.
add_sample_forgets_others(store_gpus, cap, sample, ts, n) ==
    LET g == sample.gpu_idx
        old == IF g \in DOMAIN store_gpus THEN store_gpus[g] ELSE <<>>
    IN insert(EmptyMap, g, push(old, cap, TimestampedSample(sample, ts, n)))

\* DataStore::add_sample, the histories: entry(gpu_idx).or_insert_with(new)
\* .push(sample), stamped Instant::now().
add_sample(store_gpus, cap, sample, ts, n) ==
    LET g == sample.gpu_idx
        old == IF g \in DOMAIN store_gpus THEN store_gpus[g] ELSE <<>>
    IN insert(store_gpus, g, push(old, cap, TimestampedSample(sample, ts, n)))

\* Vec<u32>::sort: the numbers of S in ascending order.
RECURSIVE sorted(_)
sorted(S) ==
    IF S = {} THEN <<>>
    ELSE LET m == CHOOSE x \in S : \A y \in S : x <= y
         IN <<m>> \o sorted(S \ {m})

\* DataStore::gpu_indices: the keys of the histories, sorted.
gpu_indices == sorted(DOMAIN gpus)

\* ProcessInfo
ProcessInfo(sample, ts) == [sample |-> sample, last_seen |-> ts]

\* A variant of add_process_sample that keeps an entry exactly 5 s old.
add_process_sample_keeps_boundary(procs, sample, t_insert, t_cutoff) ==
    LET key == <<sample.gpu_idx, sample.pid>>
        inserted == insert(procs, key, ProcessInfo(sample, t_insert))
        cutoff == t_cutoff - STALE_SECS
        keep(k, v) == v.last_seen >= cutoff
    IN retain(inserted, keep)

\* DataStore::add_process_sample: insert under (gpu_idx, pid) stamped with the
\* first Instant::now(), then retain the entries with last_seen > cutoff,
\* cutoff being the second Instant::now() minus 5 s.
add_process_sample(procs, sample, t_insert, t_cutoff) ==
    LET key == <<sample.gpu_idx, sample.pid>>
        inserted == insert(procs, key, ProcessInfo(sample, t_insert))
        cutoff == t_cutoff - STALE_SECS
        keep(k, v) == v.last_seen > cutoff
    IN retain(inserted, keep)

\* The keys of a map in ascending (gpu_idx, pid) order: sort_by_key.
RECURSIVE SortedKeys(_)
SortedKeys(S) ==
    IF S = {} THEN <<>>
    ELSE LET m == CHOOSE x \in S : \A y \in S :
                      x[1] < y[1] \/ (x[1] = y[1] /\ x[2] <= y[2])
         IN <<m>> \o SortedKeys(S \ {m})

\* DataStore::get_processes: every value of the map, sorted by (gpu_idx, pid);
\* no entry is filtered by age.
get_processes ==
    LET ks == SortedKeys(DOMAIN processes)
    IN [i \in 1..Len(ks) |-> processes[ks[i]]]

\* The pmon lookup of get_enriched_processes (data.rs:221):
\* self.processes.get(&(gpu_idx, pid)).
pmon_lookup(g, pid) ==
    IF <<g, pid>> \in DOMAIN processes THEN Some(processes[<<g, pid>>]) ELSE Absent

\* ------------------------------------------------------------ input records
GpuSamples == [gpu_idx : GpuIdx, sm_util : SmUtils]
ProcessSamples == [gpu_idx : GpuIdx, pid : Pids, sm_util : SmUtils]

\* ----------------------------------------------------------------- Init
\* DataStore::new(history_seconds): every collection empty.
DataStore_new(history_seconds) ==
    /\ now = 0
    /\ gpus = EmptyMap
    /\ max_samples = history_seconds
    /\ total_samples = 0
    /\ processes = EmptyMap
    /\ compute_apps = <<>>
    /\ process_sys_info = EmptyMap
    /\ gpu_info = EmptyMap
    /\ topology = Absent
    /\ pushes = [g \in GpuIdx |-> 0]
    /\ last_op = [op |-> "new"]

\* App::new: no error, nothing spawned yet; App::run is about to query the
\* topology.
App_new ==
    /\ error = Absent
    /\ app_pc = run_entry
    /\ rx = "none"
    /\ chan = <<>>
    /\ child = [s \in Streams |-> "none"]
    /\ pc = [t \in Tasks |-> "unspawned"]
    /\ pending = [t \in Tasks |-> Absent]
    /\ query_pids = {}
    /\ hung = "none"
    /\ emitted = [t \in Tasks |-> <<>>]
    /\ applied = [t \in Tasks |-> [count |-> 0, last |-> 0]]
    /\ applied_kinds = {}
    /\ spawned = [s \in Streams |-> 0]
    /\ stream_end = [s \in Streams |-> "none"]
    /\ send_failed = [t \in Tasks |-> FALSE]
    /\ topo_queries = <<>>
    /\ last_query = "none"
    /\ selected_gpu = 0
    /\ overlay = "None"
    /\ view_mode = "Dashboard"

\* Time passes.
Tick ==
    /\ now < MaxTime
    /\ now' = now + 1
    /\ last_op' = [op |-> "tick"]
    /\ UNCHANGED <<storeVars, pipeVars, uiVars, pushes>>

\* NvidiaMessage::GpuSample applied (app.rs:107-108): DataStore::add_sample.
AddSample(sample) ==
    /\ total_samples < MaxPushes
    /\ gpus' = add_sample(gpus, max_samples, sample, now, pushes[sample.gpu_idx] + 1)
    /\ total_samples' = total_samples + 1
    /\ pushes' = [pushes EXCEPT ![sample.gpu_idx] = @ + 1]
    /\ last_op' = [op |-> "add_sample", sample |-> sample]
    /\ UNCHANGED <<now, max_samples, processes, compute_apps, process_sys_info,
                   gpu_info, topology, pipeVars, uiVars>>

\* NvidiaMessage::ProcessSample applied (app.rs:111-112):
\* DataStore::add_process_sample; gap seconds pass between its two clock reads.
AddProcessSample(sample, gap) ==
    /\ now + gap <= MaxTime
    /\ processes' = add_process_sample(processes, sample, now, now + gap)
    /\ now' = now + gap
    /\ last_op' = [op |-> "add_process_sample", sample |-> sample, t |-> now,
                   swept |-> DOMAIN processes \ DOMAIN processes']
    /\ UNCHANGED <<gpus, max_samples, total_samples, compute_apps,
                   process_sys_info, gpu_info, topology, pipeVars, uiVars, pushes>>

\* ---------------------------------------------- the history specification
\* args.history is any u64, 0 included.
InitHist ==
    /\ App_new
    /\ budget = MaxEmit
    /\ \E history \in 0..MaxCapacity : DataStore_new(history)

NextHist == \E sample \in GpuSamples : AddSample(sample)

SpecHist == InitHist /\ [][NextHist]_vars

\* ------------------------------------------- the process-map specification
\* --history left at its default.
InitProc == App_new /\ DataStore_new(DEFAULT_HISTORY) /\ budget = MaxEmit

NextProc ==
    \/ Tick
    \/ \E sample \in ProcessSamples, gap \in 0..MaxGap : AddProcessSample(sample, gap)

SpecProc == InitProc /\ [][NextProc]_vars

\* ======================================================================
\* The supervisor and the consumer
\* ======================================================================

\* NvidiaMessage; src and n (the task that sent it and the ordinal of the
\* message among that task's) are history of the run, not fields.
Msg(kind, src, n, body) == [kind |-> kind, src |-> src, n |-> n, body |-> body]

\* What the tools report in the pipeline specifications.
PipeGpuSamples == {[gpu_idx |-> 0, sm_util |-> 42]}
PipeProcessSamples == {[gpu_idx |-> 0, pid |-> 100, sm_util |-> 42]}
GpuInfoBatches == {<<[index |-> 0, uuid |-> "GPU-aaa"]>>}
ComputeAppBatches ==
    {<<>>,
     <<[pid |-> 100, gpu_uuid |-> "GPU-aaa", vram_used_mib |-> 512]>>,
     <<[pid |-> 100, gpu_uuid |-> "GPU-aaa", vram_used_mib |-> 512],
       [pid |-> 100, gpu_uuid |-> "GPU-bbb", vram_used_mib |-> 256]>>}

\* A variant of update_gpu_info that keeps only the entries of the batch.
update_gpu_info_replaces(m, info) ==
    [i \in {info[k].index : k \in DOMAIN info} |->
        info[CHOOSE k \in DOMAIN info : info[k].index = i]]

\* DataStore::update_gpu_info: insert each GpuInfo under its index.
RECURSIVE update_gpu_info(_, _)
update_gpu_info(m, info) ==
    IF info = <<>> THEN m
    ELSE update_gpu_info(insert(m, Head(info).index, Head(info)), Tail(info))

\* DataStore::update_compute_apps: the Vec is replaced.
update_compute_apps(old, apps) == apps

\* DataStore::update_process_sys_info: clear, then insert each info by pid.
RECURSIVE insert_all_by_pid(_, _)
insert_all_by_pid(m, infos) ==
    IF infos = <<>> THEN m
    ELSE insert_all_by_pid(insert(m, Head(infos).pid, Head(infos)), Tail(infos))

\* A variant of update_process_sys_info that merges into the old map.
update_process_sys_info_merges(old, infos) == insert_all_by_pid(old, infos)

update_process_sys_info(old, infos) == insert_all_by_pid(EmptyMap, infos)

\* As if ps were asked for every process, not for the pids of the batch.
pids_of_every_process(apps) == Pids

\* A variant of pids_of that collects no pid.
pids_of_nothing(apps) == {}

\* The distinct pids of a ComputeApps batch (process.rs:202-206).
pids_of(apps) == {apps[i].pid : i \in DOMAIN apps}

\* ------------------------------------------------------------ the channel
\* A variant of has_room for a sender that never waits.
send_ignores_capacity(c) == TRUE

\* Sender::send can complete: the channel holds fewer than its capacity.
has_room(c) == Len(c) < CHANNEL_CAPACITY

\* A variant of chan_send that puts the message at the front.
send_pushes_front(c, msg) == <<msg>> \o c

\* Sender::send, once it has room: the message goes to the back.
chan_send(c, msg) == Append(c, msg)

\* Receiver::try_recv on a non-empty channel: the front message and the rest.
try_recv(c) == [msg |-> Head(c), rest |-> Tail(c)]

\* ----------------------------------------------------------- App::run
\* A variant of after_topology that goes back to the topology query.
after_topology_queries_again == "topology"

\* App::run after the match on query_topology (app.rs:76-82): the spawn.
after_topology == "spawn"

\* query_topology().await gave Ok(topo): set_topology.
QueryTopologyOk ==
    /\ app_pc = "topology"
    /\ topology' = Some("topo")
    /\ topo_queries' = Append(topo_queries, "ok")
    /\ app_pc' = after_topology
    /\ UNCHANGED <<now, uiVars, gpus, max_samples, total_samples, processes, compute_apps,
                   process_sys_info, gpu_info, error, rx, chan, child, pc, pending,
                   query_pids, hung, budget, emitted, applied, applied_kinds, spawned,
                   stream_end, send_failed, last_query, pushes, last_op>>

\* query_topology().await gave Err(e): the error slot is set.
QueryTopologyErr ==
    /\ app_pc = "topology"
    /\ error' = Some(<<"Topology", "e">>)
    /\ topo_queries' = Append(topo_queries, "err")
    /\ app_pc' = after_topology
    /\ UNCHANGED <<now, uiVars, storeVars, rx, chan, child, pc, pending, query_pids, hung, budget,
                   emitted, applied, applied_kinds, spawned, stream_end,
                   send_failed, last_query, pushes, last_op>>

\* query_topology().await gave Ok(topo) although nvidia-smi exited with an
\* error: output.status is never read (process.rs:32-39), and
\* GpuTopology::parse of an output without a GPU0 line is the default
\* topology (no device, empty matrix), which set_topology stores.
QueryTopologyExitErr ==
    /\ app_pc = "topology"
    /\ topology' = Some("default")
    /\ topo_queries' = Append(topo_queries, "exit_err")
    /\ app_pc' = after_topology
    /\ UNCHANGED <<now, uiVars, gpus, max_samples, total_samples, processes, compute_apps,
                   process_sys_info, gpu_info, error, rx, chan, child, pc, pending,
                   query_pids, hung, budget, emitted, applied, applied_kinds, spawned,
                   stream_end, send_failed, last_query, pushes, last_op>>

\* NvidiaMonitor::spawn gave Ok: the channel, both children and the three
\* tasks exist; App::run enters its loop.
SpawnOk ==
    /\ app_pc = "spawn"
    /\ rx' = "alive"
    /\ child' = [s \in Streams |-> "running"]
    /\ spawned' = [s \in Streams |-> spawned[s] + 1]
    /\ pc' = [t \in Tasks |-> IF t \in Streams THEN "read" ELSE "tick"]
    /\ app_pc' = "draw"
    /\ UNCHANGED <<now, uiVars, storeVars, error, chan, pending, query_pids, hung, budget, emitted,
                   applied, applied_kinds, stream_end, send_failed, topo_queries, last_query,
                   pushes, last_op>>

\* NvidiaMonitor::spawn gave Err at the dmon spawn (process.rs:114-120):
\* nothing was started; the channel is dropped with the function's locals.
SpawnFailsAtDmon ==
    /\ app_pc = "spawn"
    /\ rx' = "dropped"
    /\ error' = Some(<<"Failed to spawn nvidia-smi dmon">>)
    /\ app_pc' = "failed"
    /\ UNCHANGED <<now, uiVars, storeVars, chan, child, pc, pending, query_pids, hung, budget,
                   emitted, applied, applied_kinds, spawned, stream_end,
                   send_failed, topo_queries, last_query, pushes, last_op>>

\* As if the dmon child, started before the pmon spawn failed, were left
\* running when its handle is dropped.
SpawnFailsAtPmon_leaves_dmon_running ==
    /\ app_pc = "spawn"
    /\ rx' = "dropped"
    /\ child' = [child EXCEPT !["dmon"] = "running"]
    /\ spawned' = [spawned EXCEPT !["dmon"] = @ + 1]
    /\ pc' = [pc EXCEPT !["dmon"] = "read"]
    /\ error' = Some(<<"Failed to spawn nvidia-smi pmon">>)
    /\ app_pc' = "failed"
    /\ UNCHANGED <<now, uiVars, storeVars, chan, pending, query_pids, hung, budget, emitted,
                   applied, applied_kinds, stream_end, send_failed, topo_queries, last_query,
                   pushes, last_op>>

\* NvidiaMonitor::spawn gave Err at the pmon spawn (process.rs:150-156): the
\* dmon child and its task were started; dmon_child is dropped (kill_on_drop)
\* together with the receiver.
SpawnFailsAtPmon ==
    /\ app_pc = "spawn"
    /\ rx' = "dropped"
    /\ child' = [child EXCEPT !["dmon"] = "killed"]
    /\ spawned' = [spawned EXCEPT !["dmon"] = @ + 1]
    /\ pc' = [pc EXCEPT !["dmon"] = "read"]
    /\ error' = Some(<<"Failed to spawn nvidia-smi pmon">>)
    /\ app_pc' = "failed"
    /\ UNCHANGED <<now, uiVars, storeVars, chan, pending, query_pids, hung, budget, emitted,
                   applied, applied_kinds, stream_end, send_failed, topo_queries, last_query,
                   pushes, last_op>>

\* The top of the loop (app.rs:97-103): draw, poll, and no quit key: go on to
\* drain the channel.
DrawAndPoll ==
    /\ app_pc = "draw"
    /\ app_pc' = "drain"
    /\ UNCHANGED <<now, uiVars, storeVars, error, rx, chan, child, pc, pending, query_pids,
                   hung, budget, emitted, applied, applied_kinds, spawned, stream_end,
                   send_failed, topo_queries, last_query, pushes, last_op>>

\* App::run returns (a quit key at app.rs:100-101 or 88-89, or an I/O error of
\* draw / poll): its locals are dropped, the receiver with the messages still
\* buffered and the monitor, whose children are killed (kill_on_drop).
RunReturns ==
    /\ app_pc \in {"draw", "failed"}
    /\ app_pc' = "returned"
    /\ rx' = "dropped"
    /\ chan' = <<>>
    /\ child' = [s \in Streams |-> IF child[s] = "running" THEN "killed" ELSE child[s]]
    /\ UNCHANGED <<now, uiVars, storeVars, error, pc, pending, query_pids, hung, budget, emitted,
                   applied, applied_kinds, spawned, stream_end, send_failed,
                   topo_queries, last_query, pushes, last_op>>

\* A variant of error_after in which a sample leaves the error slot as it is.
error_after_sample_keeps(msg, err) ==
    CASE msg.kind = "Error" -> Some(msg.body)
      [] msg.kind = "Exited" -> Some(<<msg.body, "exited">>)
      [] OTHER -> err

\* As if a ProcessSample cleared the error slot as a GpuSample does.
error_after_any_sample_clears(msg, err) ==
    CASE msg.kind \in {"GpuSample", "ProcessSample"} -> Absent
      [] msg.kind = "Error" -> Some(msg.body)
      [] msg.kind = "Exited" -> Some(<<msg.body, "exited">>)
      [] OTHER -> err

\* self.error after the match arm of msg (app.rs:107-128): None after a
\* GpuSample, Some(e) after Error(e), Some("<which> exited") after
\* Exited(which); the other arms do not assign it.
error_after(msg, err) ==
    CASE msg.kind = "GpuSample" -> Absent
      [] msg.kind = "Error" -> Some(msg.body)
      [] msg.kind = "Exited" -> Some(<<msg.body, "exited">>)
      [] OTHER -> err

\* A variant of after_apply in which the consumer returns once a source ended.
after_apply_returns_on_end(msg) ==
    IF msg.kind \in {"Error", "Exited"} THEN "returned" ELSE "drain"

\* Where App::run stands after a match arm (app.rs:106-129): no arm breaks
\* or returns, the while loop tries the next message.
after_apply(msg) == "drain"

\* One turn of `while let Ok(msg) = rx.try_recv()` (app.rs:105-130): the front
\* message is taken and applied to the store.
\* The entities of the store a message can be applied to.
Store ==
    [gpus |-> gpus, total_samples |-> total_samples, processes |-> processes,
     compute_apps |-> compute_apps, process_sys_info |-> process_sys_info,
     gpu_info |-> gpu_info]

\* As if add_sample swept the process map as add_process_sample does.
apply_msg_sample_sweeps_processes(s, cap, msg, t, n) ==
    CASE msg.kind = "GpuSample" ->
             [s EXCEPT !.gpus = add_sample(@, cap, msg.body, t, n),
                       !.total_samples = @ + 1,
                       !.processes = EmptyMap]
      [] msg.kind = "ProcessSample" ->
             [s EXCEPT !.processes = add_process_sample(@, msg.body, t, t)]
      [] msg.kind = "GpuInfo" ->
             [s EXCEPT !.gpu_info = update_gpu_info(@, msg.body)]
      [] msg.kind = "ComputeApps" ->
             [s EXCEPT !.compute_apps = update_compute_apps(@, msg.body)]
      [] msg.kind = "ProcessSystemInfo" ->
             [s EXCEPT !.process_sys_info = update_process_sys_info(@, msg.body)]
      [] msg.kind \in {"Error", "Exited"} -> s

\* The match of the consumer loop (app.rs:106-129): each arm calls one method
\* of the store; Error and Exited call none.
apply_msg(s, cap, msg, t, n) ==
    CASE msg.kind = "GpuSample" ->
             [s EXCEPT !.gpus = add_sample(@, cap, msg.body, t, n),
                       !.total_samples = @ + 1]
      [] msg.kind = "ProcessSample" ->
             [s EXCEPT !.processes = add_process_sample(@, msg.body, t, t)]
      [] msg.kind = "GpuInfo" ->
             [s EXCEPT !.gpu_info = update_gpu_info(@, msg.body)]
      [] msg.kind = "ComputeApps" ->
             [s EXCEPT !.compute_apps = update_compute_apps(@, msg.body)]
      [] msg.kind = "ProcessSystemInfo" ->
             [s EXCEPT !.process_sys_info = update_process_sys_info(@, msg.body)]
      [] msg.kind \in {"Error", "Exited"} -> s

DrainApply ==
    /\ app_pc = "drain"
    /\ chan # <<>>
    /\ LET msg == try_recv(chan).msg
           n == IF msg.kind = "GpuSample" THEN pushes[msg.body.gpu_idx] + 1 ELSE 0
       IN
       \E s \in {apply_msg(Store, max_samples, msg, now, n)} :
       /\ chan' = try_recv(chan).rest
       /\ applied' = [applied EXCEPT ![msg.src] =
                          [count |-> @.count + 1, last |-> msg.n]]
       /\ applied_kinds' = applied_kinds \cup {msg.kind}
       /\ error' = error_after(msg, error)
       /\ app_pc' = after_apply(msg)
       /\ gpus' = s.gpus
       /\ total_samples' = s.total_samples
       /\ processes' = s.processes
       /\ compute_apps' = s.compute_apps
       /\ process_sys_info' = s.process_sys_info
       /\ gpu_info' = s.gpu_info
       /\ pushes' = IF msg.kind = "GpuSample"
                    THEN [pushes EXCEPT ![msg.body.gpu_idx] = @ + 1]
                    ELSE pushes
    /\ UNCHANGED <<now, uiVars, max_samples, topology, rx, child, pc, pending,
                   query_pids, hung, budget, emitted, spawned, stream_end, send_failed,
                   topo_queries, last_query, last_op>>

\* try_recv on the empty channel gives Err: the while loop ends and the outer
\* loop goes round (should_quit is only ever set together with a break).
DrainEmpty ==
    /\ app_pc = "drain"
    /\ chan = <<>>
    /\ app_pc' = "draw"
    /\ UNCHANGED <<now, uiVars, storeVars, error, rx, chan, child, pc, pending, query_pids,
                   hung, budget, emitted, applied, applied_kinds, spawned, stream_end,
                   send_failed, topo_queries, last_query, pushes, last_op>>

\* ------------------------------------------------ the spawned tasks
\* The kind of data message each streaming task sends.
sample_kind(s) == IF s = "dmon" THEN "GpuSample" ELSE "ProcessSample"

\* A variant of after_send_ok that starts the next cycle's device-info
\* query while the OS-process query of this cycle is still to come.
after_send_ok_starts_next_cycle(p) ==
    CASE p = "send" -> "read"
      [] p = "send_last" -> "done"
      [] p = "s_info" -> "q_apps"
      [] p = "s_apps" -> "q_info"
      [] p = "s_ps" -> "tick"

\* A variant of after_send_ok that reads on after the terminal message.
after_send_ok_keeps_reading(p) ==
    CASE p = "send" -> "read"
      [] p = "send_last" -> "read"
      [] p = "s_info" -> "q_apps"
      [] p = "s_apps" -> "q_ps"
      [] p = "s_ps" -> "tick"

\* Where a task goes on after send(..).await returned Ok: a streaming task
\* reads the next line, or breaks after its terminal message; the periodic
\* task goes on to its next query, or to the next interval tick.
after_send_ok(p) ==
    CASE p = "send" -> "read"
      [] p = "send_last" -> "done"
      [] p = "s_info" -> "q_apps"
      [] p = "s_apps" -> "q_ps"
      [] p = "s_ps" -> "tick"

\* Where a task goes on after send(..).await returned Err (the receiver is
\* gone): every send site breaks out of the loop.
after_send_err(p) == "done"

SendPcs == {"send", "send_last", "s_info", "s_apps", "s_ps"}

\* lines.next_line().await can return a line of the running tool.
CanRead(s) == pc[s] = "read" /\ child[s] = "running" /\ hung # s

\* Ok(Some(line)) and parse_line gave Some(sample): the task goes to send it.
ReadSample(s, sample) ==
    /\ CanRead(s)
    /\ budget > 0
    /\ budget' = budget - 1
    /\ pending' = [pending EXCEPT ![s] =
                      Some(Msg(sample_kind(s), s, Len(emitted[s]) + 1, sample))]
    /\ pc' = [pc EXCEPT ![s] = "send"]
    /\ UNCHANGED <<now, uiVars, storeVars, error, app_pc, rx, chan, child, query_pids, hung,
                   emitted, applied, applied_kinds, spawned, stream_end,
                   send_failed, topo_queries, last_query, pushes, last_op>>

\* Ok(Some(line)) and parse_line gave None: the line is dropped and the loop
\* goes round.
ReadNoData(s) ==
    /\ CanRead(s)
    /\ UNCHANGED vars

\* Ok(None): the tool closed its output (it exited, or was killed on drop).
ReadEof(s) ==
    /\ pc[s] = "read"
    /\ \/ child[s] = "running" /\ hung # s
       \/ child[s] = "killed"
    /\ pending' = [pending EXCEPT ![s] = Some(Msg("Exited", s, Len(emitted[s]) + 1, s))]
    /\ stream_end' = [stream_end EXCEPT ![s] = "eof"]
    /\ pc' = [pc EXCEPT ![s] = "send_last"]
    /\ UNCHANGED <<now, uiVars, storeVars, error, app_pc, rx, chan, child, query_pids, hung, budget,
                   emitted, applied, applied_kinds, spawned, send_failed,
                   topo_queries, last_query, pushes, last_op>>

\* Err(e): the read failed.
ReadError(s) ==
    /\ CanRead(s)
    /\ pending' = [pending EXCEPT ![s] =
                      Some(Msg("Error", s, Len(emitted[s]) + 1, <<s, "e">>))]
    /\ stream_end' = [stream_end EXCEPT ![s] = "error"]
    /\ pc' = [pc EXCEPT ![s] = "send_last"]
    /\ UNCHANGED <<now, uiVars, storeVars, error, app_pc, rx, chan, child, query_pids, hung, budget,
                   emitted, applied, applied_kinds, spawned, send_failed,
                   topo_queries, last_query, pushes, last_op>>

\* tx.send(msg).await of task t: Err when the receiver is gone; otherwise the
\* message is buffered as soon as the channel has room, and until then the
\* task stays suspended in the send.
Send(t) ==
    /\ pc[t] \in SendPcs
    /\ pending[t] # Absent
    /\ IF rx # "alive"
         THEN /\ pc' = [pc EXCEPT ![t] = after_send_err(pc[t])]
              /\ send_failed' = [send_failed EXCEPT ![t] = TRUE]
              /\ UNCHANGED chan
         ELSE /\ has_room(chan)
              /\ chan' = chan_send(chan, pending[t][1])
              /\ pc' = [pc EXCEPT ![t] = after_send_ok(pc[t])]
              /\ UNCHANGED send_failed
    /\ emitted' = [emitted EXCEPT ![t] = Append(@, pending[t][1].kind)]
    /\ pending' = [pending EXCEPT ![t] = Absent]
    /\ last_query' = IF t = "query" THEN "none" ELSE last_query
    /\ UNCHANGED <<now, uiVars, storeVars, error, app_pc, rx, child, query_pids, hung, budget,
                   applied, applied_kinds, spawned, stream_end, topo_queries,
                   pushes, last_op>>

\* interval.tick().await returns (at once the first time, then every 2 s).
IntervalTick ==
    /\ pc["query"] = "tick"
    /\ pc' = [pc EXCEPT !["query"] = "q_info"]
    /\ UNCHANGED <<now, uiVars, storeVars, error, app_pc, rx, chan, child, pending,
                   query_pids, hung, budget, emitted, applied, applied_kinds, spawned,
                   stream_end, send_failed, topo_queries, last_query, pushes, last_op>>

\* What query_gpu_info and query_compute_apps return once nvidia-smi has run
\* and exited with the given status: output().await gives Ok whatever the
\* status, which is never read (process.rs:43-49, 66-72), and the lines of
\* stdout that parse are the result.  A failing nvidia-smi (no driver to
\* talk to) prints a message that parses to nothing.
parsed_stdout(batches, status) ==
    IF status = "exit_err" THEN {<<>>} ELSE batches

ExitStatuses == {"exit_ok", "exit_err"}

\* Every result the query can return for some exit status.
query_results(batches) ==
    UNION {parsed_stdout(batches, status) : status \in ExitStatuses}

\* query_gpu_info().await gave Ok(info): nvidia-smi ran and exited.
QueryGpuInfoOk(info) ==
    /\ pc["query"] = "q_info"
    /\ hung # "query_gpu"
    /\ budget > 0
    /\ budget' = budget - 1
    /\ \E status \in ExitStatuses :
           /\ info \in parsed_stdout(GpuInfoBatches, status)
           /\ last_query' = status
    /\ pending' = [pending EXCEPT !["query"] =
                      Some(Msg("GpuInfo", "query", Len(emitted["query"]) + 1, info))]
    /\ pc' = [pc EXCEPT !["query"] = "s_info"]
    /\ UNCHANGED <<now, uiVars, storeVars, error, app_pc, rx, chan, child, query_pids, hung,
                   emitted, applied, applied_kinds, spawned, stream_end,
                   send_failed, topo_queries, pushes, last_op>>

\* query_gpu_info().await gave Err (nvidia-smi could not be started): nothing
\* is sent, the cycle goes on.
QueryGpuInfoErr ==
    /\ pc["query"] = "q_info"
    /\ hung # "query_gpu"
    /\ pc' = [pc EXCEPT !["query"] = "q_apps"]
    /\ UNCHANGED <<now, uiVars, storeVars, error, app_pc, rx, chan, child, pending,
                   query_pids, hung, budget, emitted, applied, applied_kinds, spawned,
                   stream_end, send_failed, topo_queries, last_query, pushes, last_op>>

\* query_compute_apps().await gave Ok(apps): the pids are collected, the
\* batch is sent.
QueryComputeAppsOk(apps) ==
    /\ pc["query"] = "q_apps"
    /\ hung # "compute_apps"
    /\ budget > 0
    /\ budget' = budget - 1
    /\ \E status \in ExitStatuses :
           /\ apps \in parsed_stdout(ComputeAppBatches, status)
           /\ last_query' = status
    /\ query_pids' = pids_of(apps)
    /\ pending' = [pending EXCEPT !["query"] =
                      Some(Msg("ComputeApps", "query", Len(emitted["query"]) + 1, apps))]
    /\ pc' = [pc EXCEPT !["query"] = "s_apps"]
    /\ UNCHANGED <<now, uiVars, storeVars, error, app_pc, rx, chan, child, hung, emitted,
                   applied, applied_kinds, spawned, stream_end, send_failed,
                   topo_queries, pushes, last_op>>

\* query_compute_apps().await gave Err (nvidia-smi could not be started): the
\* rest of the cycle is skipped.
QueryComputeAppsErr ==
    /\ pc["query"] = "q_apps"
    /\ hung # "compute_apps"
    /\ pc' = [pc EXCEPT !["query"] = "tick"]
    /\ UNCHANGED <<now, uiVars, storeVars, error, app_pc, rx, chan, child, pending,
                   query_pids, hung, budget, emitted, applied, applied_kinds, spawned,
                   stream_end, send_failed, topo_queries, last_query, pushes, last_op>>

\* What ps can report for the pids asked for: a line for each, or for none.
ps_results(pids) ==
    {<<>>} \cup
    (IF pids = {} THEN {}
     ELSE {[i \in 1..1 |-> [pid |-> (CHOOSE p \in pids : TRUE), rss_kb |-> 204800]]})

\* How ps ended for the lines it printed: it is not run for no pids
\* (process.rs:86-88), and exits with status 1 when it selected no process.
ps_status(pids, infos) ==
    IF pids = {} THEN "not_run"
    ELSE IF infos = <<>> THEN "exit_err" ELSE "exit_ok"

\* query_process_info(&pids).await gave Ok: at once and empty when pids is
\* empty (ps is not run), else what ps printed, whatever its exit status.
QueryProcessInfoOk(infos) ==
    /\ pc["query"] = "q_ps"
    /\ query_pids = {} \/ hung # "ps"
    /\ infos \in ps_results(query_pids)
    /\ query_pids = {} \/ budget > 0
    /\ budget' = IF query_pids = {} THEN budget ELSE budget - 1
    /\ last_query' = ps_status(query_pids, infos)
    /\ pending' = [pending EXCEPT !["query"] =
                      Some(Msg("ProcessSystemInfo", "query",
                               Len(emitted["query"]) + 1, infos))]
    /\ pc' = [pc EXCEPT !["query"] = "s_ps"]
    /\ UNCHANGED <<now, uiVars, storeVars, error, app_pc, rx, chan, child, query_pids, hung,
                   emitted, applied, applied_kinds, spawned, stream_end,
                   send_failed, topo_queries, pushes, last_op>>

\* query_process_info(&pids).await gave Err (ps could not be started).
QueryProcessInfoErr ==
    /\ pc["query"] = "q_ps"
    /\ query_pids # {}
    /\ hung # "ps"
    /\ pc' = [pc EXCEPT !["query"] = "tick"]
    /\ UNCHANGED <<now, uiVars, storeVars, error, app_pc, rx, chan, child, pending,
                   query_pids, hung, budget, emitted, applied, applied_kinds, spawned,
                   stream_end, send_failed, topo_queries, last_query, pushes, last_op>>

\* An external tool hangs: from now on it neither prints nor exits.
Hang(tool) ==
    /\ rx = "alive"
    /\ hung = "none"
    /\ hung' = tool
    /\ UNCHANGED <<now, uiVars, storeVars, error, app_pc, rx, chan, child, pc, pending,
                   query_pids, budget, emitted, applied, applied_kinds, spawned,
                   stream_end, send_failed, topo_queries, last_query, pushes, last_op>>

\* ------------------------------------------------ the whole program
\* main: App::new(args.history), --history left at its default.
Init == App_new /\ DataStore_new(DEFAULT_HISTORY) /\ budget = MaxEmit

\* A step of the dmon or pmon reader task (process.rs:124-147, 160-183).
StreamStep(s) ==
    \/ \E sample \in IF s = "dmon" THEN PipeGpuSamples ELSE PipeProcessSamples :
           ReadSample(s, sample)
    \/ ReadEof(s)
    \/ ReadError(s)
    \/ Send(s)

\* A step of the periodic query task (process.rs:186-221).
QueryStep ==
    \/ IntervalTick
    \/ \E info \in query_results(GpuInfoBatches) : QueryGpuInfoOk(info)
    \/ QueryGpuInfoErr
    \/ \E apps \in query_results(ComputeAppBatches) : QueryComputeAppsOk(apps)
    \/ QueryComputeAppsErr
    \/ \E infos \in ps_results(query_pids) : QueryProcessInfoOk(infos)
    \/ QueryProcessInfoErr
    \/ Send("query")

\* A step of the running program: the consumer loop or one of the tasks.
Steady ==
    \/ DrawAndPoll
    \/ DrainApply
    \/ DrainEmpty
    \/ RunReturns
    \/ \E s \in Streams : StreamStep(s)
    \/ \E s \in Streams : ReadNoData(s)
    \/ QueryStep

\* A step of App::run from its entry on.
Next ==
    \/ QueryTopologyOk
    \/ QueryTopologyErr
    \/ SpawnOk
    \/ SpawnFailsAtDmon
    \/ SpawnFailsAtPmon
    \/ Steady

Spec == Init /\ [][Next]_vars

\* ------------------------------------- the program with a full channel
\* A state of the running program in which the consumer has been kept in
\* draw / poll: pmon exited at once (its Exited message is the first in the
\* channel), dmon printed samples, and the periodic task sent a ComputeApps
\* batch and reached its ps query.  The topology is stored and the channel
\* holds one message less than its capacity.
BacklogSample == [gpu_idx |-> 0, sm_util |-> 42]
BacklogApps == <<[pid |-> 100, gpu_uuid |-> "GPU-aaa", vram_used_mib |-> 512]>>
Backlog == CHANNEL_CAPACITY - 3

InitFull ==
    /\ now = 0
    /\ gpus = EmptyMap
    /\ max_samples = DEFAULT_HISTORY
    /\ total_samples = 0
    /\ processes = EmptyMap
    /\ compute_apps = <<>>
    /\ process_sys_info = EmptyMap
    /\ gpu_info = EmptyMap
    /\ topology = Some("topo")
    /\ pushes = [g \in GpuIdx |-> 0]
    /\ last_op = [op |-> "new"]
    /\ error = Absent
    /\ app_pc = "draw"
    /\ rx = "alive"
    /\ chan = <<Msg("Exited", "pmon", 1, "pmon")>>
              \o [i \in 1..Backlog |-> Msg("GpuSample", "dmon", i, BacklogSample)]
              \o <<Msg("ComputeApps", "query", 1, BacklogApps)>>
    /\ child = [s \in Streams |-> "running"]
    /\ pc = [dmon |-> "read", pmon |-> "done", query |-> "q_ps"]
    /\ pending = [t \in Tasks |-> Absent]
    /\ query_pids = pids_of(BacklogApps)
    /\ hung = "none"
    /\ budget = FullBudget
    /\ emitted = [t \in Tasks |->
                     CASE t = "dmon" -> [i \in 1..Backlog |-> "GpuSample"]
                       [] t = "pmon" -> <<"Exited">>
                       [] t = "query" -> <<"ComputeApps">>]
    /\ applied = [t \in Tasks |-> [count |-> 0, last |-> 0]]
    /\ applied_kinds = {}
    /\ spawned = [s \in Streams |-> 1]
    /\ stream_end = [dmon |-> "none", pmon |-> "eof"]
    /\ send_failed = [t \in Tasks |-> FALSE]
    /\ topo_queries = <<"ok">>
    /\ last_query = "none"
    /\ selected_gpu = 0
    /\ overlay = "None"
    /\ view_mode = "Dashboard"

\* The tokio runtime runs every task that is ready, and the consumer loop goes
\* round: a send that can complete completes, a killed child's stream gives
\* end-of-stream, a one-shot query that does not hang returns, and the
\* consumer draws, polls and drains.  What the tools print is not constrained.
Consumer == DrawAndPoll \/ DrainApply \/ DrainEmpty

\* The reader of a killed child gets end-of-stream.
KilledEof(s) == child[s] = "killed" /\ ReadEof(s)

SpecFull ==
    /\ InitFull
    /\ [][Steady]_vars
    /\ WF_vars(Consumer)
    /\ \A t \in Tasks : WF_vars(Send(t))

\* ------------------------------------- the program under fair scheduling
FairPipe ==
    /\ Init
    /\ [][Next]_vars
    /\ WF_vars(Consumer)
    /\ \A t \in Tasks : WF_vars(Send(t))
    /\ \A s \in Streams : WF_vars(KilledEof(s))
    /\ WF_vars(QueryStep)

\* ------------------------- the program with few data messages, fair
\* The whole program as in FairPipe, with the tools yielding FullBudget data
\* messages.
InitLean == App_new /\ DataStore_new(DEFAULT_HISTORY) /\ budget = FullBudget

FairLean ==
    /\ InitLean
    /\ [][Next]_vars
    /\ WF_vars(Consumer)
    /\ \A t \in Tasks : WF_vars(Send(t))
    /\ \A s \in Streams : WF_vars(KilledEof(s))
    /\ WF_vars(QueryStep)

\* ------------------------------------- the start-up, every outcome
\* The whole program with every outcome of the topology query, the tools
\* yielding FullBudget data messages.
NextStart ==
    \/ Next
    \/ QueryTopologyExitErr

SpecStart == InitLean /\ [][NextStart]_vars

\* ------------------------------------- the program with a tool that hangs
NextHang ==
    \/ Next
    \/ \E tool \in Tools : Hang(tool)

FairHang ==
    /\ Init
    /\ [][NextHang]_vars
    /\ WF_vars(Consumer)
    /\ \A t \in Tasks : WF_vars(Send(t))
    /\ \A s \in Streams : WF_vars(KilledEof(s))
    /\ WF_vars(QueryStep)

\* ======================================================================
\* Properties of the store
\* ======================================================================

\* C1. Staleness: a ProcessSample applied at time T and not re-applied for its
\* key is absent from the process map, as read by get_processes and by the
\* utilization lookup of get_enriched_processes, at every time >= T + 5 s.
\* An entry still in the map was applied at its last_seen and not since.
C1_StaleAbsentAtQuery ==
    /\ \A i \in DOMAIN get_processes :
           now < get_processes[i].last_seen + STALE_SECS
    /\ \A g \in GpuIdx, pid \in Pids :
           pmon_lookup(g, pid) # Absent =>
               now < pmon_lookup(g, pid)[1].last_seen + STALE_SECS

\* C2. The length of every device's history is at most the configured
\* capacity, for every capacity --history can give.
C2_HistoryWithinCapacity ==
    \A g \in DOMAIN gpus : len(gpus[g]) <= max_samples

\* C3. Ring buffer: once capacity + k samples (k >= 0) were pushed into a
\* history, its length is the capacity, its oldest sample is the (k+1)-th
\* pushed one, and it holds the most recently pushed samples in push order.
C3_RingBufferFifo ==
    \A g \in DOMAIN gpus :
        pushes[g] >= max_samples =>
            /\ len(gpus[g]) = max_samples
            /\ gpus[g] # <<>> => gpus[g][1].n = pushes[g] - max_samples + 1
            /\ \A i \in 1..len(gpus[g]) :
                   gpus[g][i].n = pushes[g] - len(gpus[g]) + i

\* C4. Right after a ProcessSample is applied at time t, the map holds that
\* sample under its (gpu_idx, pid) key, stamped t, and no entry of any key
\* whose timestamp is 5 s or more before t.
C4_SweepOnEveryInsertion ==
    last_op.op = "add_process_sample" =>
        LET key == <<last_op.sample.gpu_idx, last_op.sample.pid>>
        IN /\ key \in DOMAIN processes
           /\ processes[key] = ProcessInfo(last_op.sample, last_op.t)
           /\ \A k \in DOMAIN processes :
                  processes[k].last_seen + STALE_SECS > last_op.t

\* C4 witness: an insertion has swept the stale entry of another key.
C4_OtherKeySwept ==
    /\ last_op.op = "add_process_sample"
    /\ \E k \in last_op.swept : k # <<last_op.sample.gpu_idx, last_op.sample.pid>>

\* ======================================================================
\* Properties of the supervisor and the consumer
\* ======================================================================
\* The number of messages of task t the channel accepted.
Accepted(t) == Len(emitted[t]) - (IF send_failed[t] THEN 1 ELSE 0)

IsTerminal(kind) == kind \in {"Exited", "Error"}

SamplesApplied == applied_kinds \cap {"GpuSample", "ProcessSample"} # {}

\* C5. A streaming source whose stream ended (end-of-stream or read error)
\* emits exactly one terminal message, Exited on end-of-stream and Error on a
\* read error; the terminal message is the last message of the source, whose
\* task has then stopped; and the source's process is spawned at most once.
C5_OneTerminalThenStop ==
    \A s \in Streams :
        /\ spawned[s] <= 1
        /\ \A i \in 1..Len(emitted[s]) :
               IsTerminal(emitted[s][i]) =>
                   i = Len(emitted[s]) /\ pc[s] = "done" /\ pending[s] = Absent
        /\ stream_end[s] # "none" => pc[s] \in {"send_last", "done"}
        /\ (pc[s] = "done" /\ stream_end[s] # "none") =>
               /\ emitted[s] # <<>>
               /\ emitted[s][Len(emitted[s])] =
                      (IF stream_end[s] = "eof" THEN "Exited" ELSE "Error")
        /\ (pc[s] = "done" /\ stream_end[s] = "none") => send_failed[s]

\* C5 witness: a stream ended after a data message, its terminal message is
\* out, and the session goes on.
C5_TerminalEmitted ==
    \E s \in Streams :
        /\ pc[s] = "done"
        /\ Len(emitted[s]) >= 2
        /\ IsTerminal(emitted[s][Len(emitted[s])])
        /\ rx = "alive"

\* The messages of task t in the channel, in channel order.
Queued(t) == SelectSeq(chan, LAMBDA m : m.src = t)

\* The safety part of C6: the channel never holds more than its capacity of
\* 200 messages; a task that sends while the channel is full stays in the
\* send, holding its message; and while the receiver is alive every message
\* the channel accepted is either applied, once, or still queued behind the
\* applied ones, none dropped and none twice.
BoundedNoLoss ==
    /\ Len(chan) <= CHANNEL_CAPACITY
    /\ \A t \in Tasks :
           /\ pc[t] \in SendPcs => pending[t] # Absent
           /\ (pc[t] \in SendPcs /\ rx = "alive" /\ Len(chan) >= CHANNEL_CAPACITY)
                  => ~ENABLED Send(t)
           /\ rx = "alive" =>
                  LET queued == Queued(t)
                  IN /\ applied[t].last = applied[t].count
                     /\ Len(queued) = Accepted(t) - applied[t].count
                     /\ \A i \in 1..Len(queued) :
                            queued[i].n = applied[t].count + i

\* The eventual part of C6: in the end the receiver is gone, or the channel
\* is drained, no task is left in a send, and every message handed to send
\* has been applied.
EventuallyApplied ==
    <>[](rx = "alive" =>
            /\ chan = <<>>
            /\ \A t \in Tasks : pc[t] \notin SendPcs /\ applied[t].count = Accepted(t))

\* C6. The channel never holds more than its capacity of 200 messages; a task
\* that sends while the channel is full blocks until the consumer frees a
\* slot; and while the receiver is alive no message handed to send is
\* dropped: each is eventually applied to the store, exactly once.
C6_ChannelContract == []BoundedNoLoss /\ EventuallyApplied

\* C6 witness: the channel is full, the receiver is alive, and a task is
\* suspended in send with its message.
C6_SenderBlockedOnFullChannel ==
    /\ rx = "alive"
    /\ Len(chan) = CHANNEL_CAPACITY
    /\ \E t \in Tasks : pc[t] \in SendPcs /\ pending[t] # Absent

\* C7. Once the receiver has been dropped, every producing task that was
\* spawned eventually gets a failed send and stops, whatever the tools do.
C7_DroppedReceiverStopsTasks ==
    (rx = "dropped") ~> (\A t \in Tasks : pc[t] \in {"done", "unspawned"})

\* C8 as claimed. One device-info query has completed and its result is in
\* the store before any DeviceSample or ProcessSample is applied.
C8_DeviceInfoSeededFirst ==
    SamplesApplied => gpu_info # EmptyMap

\* C8 as amended. The one topology query has completed, and on success its
\* result is in the store, before any DeviceSample or ProcessSample is
\* applied.
C8_TopologySeededFirst ==
    SamplesApplied =>
        /\ Len(topo_queries) = 1
        /\ topo_queries[1] = "ok" => topology = Some("topo")

\* C8 witness: a sample is applied while no device info is in the store.
C8_SampleBeforeDeviceInfo ==
    /\ SamplesApplied
    /\ gpu_info = EmptyMap
    /\ topo_queries = <<"ok">>

\* The four external sources; the VRAM-allocation query and its ps follow-up
\* are one source.
Sources == {"dmon", "pmon", "query_gpu", "vram"}

HungSource == IF hung \in {"compute_apps", "ps"} THEN "vram" ELSE hung

\* Source src is served: its task awaits its tool's next output, or its
\* stream has ended.
Served(src) ==
    CASE src \in Streams -> pc[src] \in {"read", "send_last", "done"}
      [] src = "query_gpu" -> pc["query"] = "q_info"
      [] src = "vram" -> pc["query"] = "q_apps"

\* C9. When the external process of one of the four sources hangs forever,
\* each of the other three sources goes on being served (so that its
\* messages are produced and applied) for as long as the receiver is alive.
C9_HungToolStallsOnlyItself ==
    \A h \in Sources : \A src \in Sources \ {h} :
        (HungSource = h /\ rx = "alive") ~> (Served(src) \/ rx # "alive")


\* C10. The consumer applies the messages of each task in the order the task
\* emitted them: the k-th message it applies of a task is the k-th message
\* that task emitted.
C10_PerSourceOrder ==
    \A t \in Tasks :
        /\ applied[t].last = applied[t].count
        /\ applied[t].count <= Accepted(t)

\* C10 witness: two messages of one task are applied, and a message of
\* another task as well.
C10_TwoAppliedInOrder ==
    \E t \in Tasks, u \in Tasks :
        /\ t # u
        /\ applied[t].count >= 2
        /\ applied[u].count >= 1

\* C11. A periodic one-shot invocation that failed, because the tool could
\* not be started or because it exited with an error, emits no message for
\* that cycle: the periodic task is never sending the result of a tool that
\* exited with an error (an invocation that could not be started has no
\* result).
C11_FailedQueryEmitsNothing ==
    last_query = "exit_err" => pending["query"] = Absent

\* C11 (the part the code keeps): when a query returns Err (the tool could
\* not be started) the periodic task goes on to its next query or to the next
\* interval tick; nothing is sent, and neither the store nor the error slot
\* changes.
C11_StartFailureSwallowed ==
    [][ ((pc["query"] = "q_info" /\ pc'["query"] = "q_apps")
            \/ (pc["query"] \in {"q_apps", "q_ps"} /\ pc'["query"] = "tick"))
        => /\ pending' = pending
           /\ emitted' = emitted
           /\ chan' = chan
           /\ error' = error
           /\ storeVars' = storeVars
      ]_vars

\* The pids of the rows of a batch held as the periodic task's pending message.
PendingPids == {pending["query"][1].body[i].pid : i \in DOMAIN pending["query"][1].body}

\* C12 (states). The periodic task is at the ps query, or sending its result,
\* only straight after it handed that cycle's ComputeApps message to send;
\* while it sends the ComputeApps batch the pids it collected are exactly the
\* pids of that batch; what ps returned is about those pids only; and every
\* ProcessSystemInfo message it sent follows a ComputeApps message directly.
C12_PsFollowsComputeApps ==
    /\ pc["query"] \in {"q_ps", "s_ps"} =>
           /\ emitted["query"] # <<>>
           /\ emitted["query"][Len(emitted["query"])] = "ComputeApps"
    /\ pc["query"] = "s_apps" =>
           /\ pending["query"][1].kind = "ComputeApps"
           /\ query_pids = PendingPids
    /\ pc["query"] = "s_ps" =>
           /\ pending["query"][1].kind = "ProcessSystemInfo"
           /\ PendingPids \subseteq query_pids
    /\ \A i \in DOMAIN emitted["query"] :
           emitted["query"][i] = "ProcessSystemInfo" =>
               i > 1 /\ emitted["query"][i - 1] = "ComputeApps"

\* C12 (steps). The ps query is reached only from the completed send of the
\* ComputeApps message, and the pids collected stay as they are from that
\* send to the end of the cycle.
C12_PsScopedToBatch ==
    [][ /\ (pc'["query"] = "q_ps" /\ pc["query"] # "q_ps") => pc["query"] = "s_apps"
        /\ pc["query"] \in {"s_apps", "q_ps", "s_ps"} => query_pids' = query_pids
      ]_vars

\* C12. In every periodic cycle the OS-process-stats query is issued only
\* after that cycle's VRAM-allocation query succeeded, is scoped to exactly
\* the distinct pids of that cycle's ComputeApps batch, and its
\* ProcessSystemInfo message is sent after that cycle's ComputeApps message
\* and never without it.
C12_PsAfterComputeApps == []C12_PsFollowsComputeApps /\ C12_PsScopedToBatch

\* C12 witness: ps answered for the one pid of a ComputeApps batch of two
\* rows, and the periodic task is sending that answer.
C12_PsAnsweredForBatchPid ==
    /\ pc["query"] = "s_ps"
    /\ query_pids = {100}
    /\ PendingPids = {100}
    /\ \E i \in 1..Len(chan) : chan[i].kind = "ComputeApps" /\ Len(chan[i].body) = 2

\* ======================================================================
\* The snapshots and the enriched view (data.rs:193-254)
\* ======================================================================

\* What the tools report in the join specification.  A GpuInfo carries the
\* number of its line in the output as index (process.rs:55-59); the fields
\* other than index and uuid play no part in the join.  A ComputeApp's name
\* only feeds the command column and is left out.  cpu_percent is in tenths
\* of a percent.
JoinGpuInfoBatches ==
    {<<[index |-> 0, uuid |-> "GPU-aaa"]>>,
     <<[index |-> 0, uuid |-> "GPU-bbb"]>>,
     <<[index |-> 0, uuid |-> "GPU-aaa"], [index |-> 1, uuid |-> "GPU-bbb"]>>,
     <<[index |-> 0, uuid |-> "GPU-bbb"], [index |-> 1, uuid |-> "GPU-aaa"]>>}

JoinComputeAppBatches ==
    {<<>>,
     <<[pid |-> 100, gpu_uuid |-> "GPU-aaa", vram_used_mib |-> 512]>>,
     <<[pid |-> 100, gpu_uuid |-> "GPU-bbb", vram_used_mib |-> 256],
       [pid |-> 101, gpu_uuid |-> "GPU-aaa", vram_used_mib |-> 512],
       [pid |-> 102, gpu_uuid |-> "GPU-aaa", vram_used_mib |-> 1024]>>,
     <<[pid |-> 100, gpu_uuid |-> "GPU-zzz", vram_used_mib |-> 512],
       [pid |-> 101, gpu_uuid |-> "GPU-aaa", vram_used_mib |-> 512]>>,
     <<[pid |-> 100, gpu_uuid |-> "GPU-aaa", vram_used_mib |-> 512],
       [pid |-> 100, gpu_uuid |-> "GPU-bbb", vram_used_mib |-> 256]>>}

PsLine(pid, cpu, rss_kb, elapsed) ==
    [pid |-> pid, cpu_percent |-> cpu, rss_kb |-> rss_kb, elapsed |-> elapsed]

\* ps prints one line for each process it selected.
JoinPsBatches ==
    {<<>>,
     <<PsLine(100, 35, 204800, "00:10:00"), PsLine(101, 0, 1500, "05:00")>>,
     <<PsLine(101, 120, 1023, "05:02"), PsLine(102, 990, 4096, "1-00:00:00")>>}

JoinProcessSamples ==
    {[gpu_idx |-> g, pid |-> 100, sm_util |-> u] : g \in GpuIdx, u \in SmUtils}
        \cup {[gpu_idx |-> 0, pid |-> 101, sm_util |-> 42]}

\* NvidiaMessage::GpuInfo applied (app.rs:114-116): DataStore::update_gpu_info.
UpdateGpuInfo(info) ==
    /\ gpu_info' = update_gpu_info(gpu_info, info)
    /\ last_op' = [op |-> "update_gpu_info", batch |-> info, before |-> gpu_info]
    /\ UNCHANGED <<now, gpus, max_samples, total_samples, processes, compute_apps,
                   process_sys_info, topology, pipeVars, uiVars, pushes>>

\* NvidiaMessage::ComputeApps applied (app.rs:117-119):
\* DataStore::update_compute_apps.
UpdateComputeApps(apps) ==
    /\ compute_apps' = update_compute_apps(compute_apps, apps)
    /\ last_op' = [op |-> "update_compute_apps", batch |-> apps, before |-> compute_apps]
    /\ UNCHANGED <<now, gpus, max_samples, total_samples, processes,
                   process_sys_info, gpu_info, topology, pipeVars, uiVars, pushes>>

\* NvidiaMessage::ProcessSystemInfo applied (app.rs:120-122):
\* DataStore::update_process_sys_info.
UpdateProcessSysInfo(infos) ==
    /\ process_sys_info' = update_process_sys_info(process_sys_info, infos)
    /\ last_op' = [op |-> "update_process_sys_info", batch |-> infos,
                   before |-> process_sys_info]
    /\ UNCHANGED <<now, gpus, max_samples, total_samples, processes, compute_apps,
                   gpu_info, topology, pipeVars, uiVars, pushes>>

\* The uuid_to_idx map of get_enriched_processes (data.rs:211-214), collected
\* from gpu_info.values(): when two stored entries carry one UUID the entry
\* iterated last stays, and the iteration order of a HashMap is unspecified,
\* so every map that sends each stored UUID to the index of an entry that
\* carries it is a possible outcome.
uuid_to_idx_maps ==
    LET uuids == {gpu_info[i].uuid : i \in DOMAIN gpu_info}
    IN {f \in [uuids -> DOMAIN gpu_info] : \A u \in uuids : gpu_info[f[u]].uuid = u}

\* A variant of enrich that sends an unresolved UUID to device index 1.
enrich_unresolved_to_one(app, row, uuid_to_idx) ==
    LET gpu_idx == IF app.gpu_uuid \in DOMAIN uuid_to_idx
                     THEN uuid_to_idx[app.gpu_uuid] ELSE 1
        pmon == pmon_lookup(gpu_idx, app.pid)
        has_sys == app.pid \in DOMAIN process_sys_info
    IN [pid |-> app.pid,
        gpu_idx |-> gpu_idx,
        vram_mib |-> app.vram_used_mib,
        sm_util |-> IF pmon = Absent THEN None ELSE pmon[1].sample.sm_util,
        cpu_percent |-> IF has_sys THEN process_sys_info[app.pid].cpu_percent ELSE 0,
        rss_mb |-> IF has_sys THEN process_sys_info[app.pid].rss_kb \div 1024 ELSE 0,
        elapsed |-> IF has_sys THEN process_sys_info[app.pid].elapsed ELSE "",
        row |-> row]

\* The EnrichedProcess assembled for one ComputeApp (data.rs:217-238); row
\* (the position of the ComputeApp in compute_apps) is history, not a field.
enrich(app, row, uuid_to_idx) ==
    LET gpu_idx == IF app.gpu_uuid \in DOMAIN uuid_to_idx
                     THEN uuid_to_idx[app.gpu_uuid] ELSE 0
        pmon == pmon_lookup(gpu_idx, app.pid)
        has_sys == app.pid \in DOMAIN process_sys_info
    IN [pid |-> app.pid,
        gpu_idx |-> gpu_idx,
        vram_mib |-> app.vram_used_mib,
        sm_util |-> IF pmon = Absent THEN None ELSE pmon[1].sample.sm_util,
        cpu_percent |-> IF has_sys THEN process_sys_info[app.pid].cpu_percent ELSE 0,
        rss_mb |-> IF has_sys THEN process_sys_info[app.pid].rss_kb \div 1024 ELSE 0,
        elapsed |-> IF has_sys THEN process_sys_info[app.pid].elapsed ELSE "",
        row |-> row]

\* A variant of sorts_before that orders VRAM ascending.
sorts_before_vram_ascending(a, b) ==
    \/ a.gpu_idx < b.gpu_idx
    \/ a.gpu_idx = b.gpu_idx /\ a.vram_mib < b.vram_mib

\* The comparator of the final sort (data.rs:241-244) gives Less: gpu_idx
\* ascending, then vram_mib descending.
sorts_before(a, b) ==
    \/ a.gpu_idx < b.gpu_idx
    \/ a.gpu_idx = b.gpu_idx /\ a.vram_mib > b.vram_mib

\* Vec::sort_by, a stable sort: each row goes after the rows already placed
\* that it does not sort before.
RECURSIVE sort_by(_)
sort_by(rows) ==
    IF rows = <<>> THEN <<>>
    ELSE LET placed == sort_by(SubSeq(rows, 1, Len(rows) - 1))
             x == rows[Len(rows)]
             k == Cardinality({i \in DOMAIN placed : ~sorts_before(x, placed[i])})
         IN SubSeq(placed, 1, k) \o <<x>> \o SubSeq(placed, k + 1, Len(placed))

\* A variant of get_enriched_processes that drops the rows ps knows nothing of.
get_enriched_processes_inner_join(uuid_to_idx) ==
    LET has_sys(r) == r.pid \in DOMAIN process_sys_info
    IN SelectSeq(sort_by([row \in DOMAIN compute_apps |->
                              enrich(compute_apps[row], row, uuid_to_idx)]),
                 has_sys)

\* DataStore::get_enriched_processes, for one outcome of the uuid_to_idx map.
get_enriched_processes(uuid_to_idx) ==
    sort_by([row \in DOMAIN compute_apps |->
                 enrich(compute_apps[row], row, uuid_to_idx)])

\* Every list a call of get_enriched_processes can return in this state.
EnrichedViews == {get_enriched_processes(f) : f \in uuid_to_idx_maps}

\* ------------------------------------------------ the join specification
InitJoin == App_new /\ DataStore_new(DEFAULT_HISTORY) /\ budget = MaxEmit

NextJoin ==
    \/ \E info \in JoinGpuInfoBatches : UpdateGpuInfo(info)
    \/ \E apps \in JoinComputeAppBatches : UpdateComputeApps(apps)
    \/ \E infos \in JoinPsBatches : UpdateProcessSysInfo(infos)
    \/ \E sample \in JoinProcessSamples : AddProcessSample(sample, 0)

SpecJoin == InitJoin /\ [][NextJoin]_vars

\* C13. Replacement: after a ComputeApps or a ProcessSystemInfo batch is
\* applied, the collection holds exactly the rows of that batch and nothing
\* of what it held before.
C13_BatchReplacesCollection ==
    /\ last_op.op = "update_compute_apps" => compute_apps = last_op.batch
    /\ last_op.op = "update_process_sys_info" =>
           /\ DOMAIN process_sys_info = {last_op.batch[i].pid : i \in DOMAIN last_op.batch}
           /\ \A i \in DOMAIN last_op.batch :
                  process_sys_info[last_op.batch[i].pid] = last_op.batch[i]

\* C13 witness: a ProcessSystemInfo batch for pids 101 and 102 was applied to
\* a store that held the stats of pids 100 and 101.
C13_OverlappingBatchApplied ==
    /\ last_op.op = "update_process_sys_info"
    /\ DOMAIN last_op.before = {100, 101}
    /\ {last_op.batch[i].pid : i \in DOMAIN last_op.batch} = {101, 102}

\* C14 (states). After a GpuInfo batch is applied, each index of the batch
\* holds the batch's entry, and every other index holds what it held before.
C14_OverwritePerIndex ==
    last_op.op = "update_gpu_info" =>
        LET batch == last_op.batch
            indices == {batch[k].index : k \in DOMAIN batch}
        IN /\ DOMAIN gpu_info = DOMAIN last_op.before \cup indices
           /\ \A k \in DOMAIN batch : gpu_info[batch[k].index] = batch[k]
           /\ \A i \in DOMAIN last_op.before \ indices : gpu_info[i] = last_op.before[i]

\* C14 (steps). No step removes a stored device index.
C14_IndexNeverRemoved == [][DOMAIN gpu_info \subseteq DOMAIN gpu_info']_vars

\* C14. Applying a DeviceInfo batch overwrites the stored entry of each
\* device index of the batch and leaves the entries of all other indices
\* untouched; a device index once stored is never removed by any message.
C14_DeviceInfoMergedPerIndex == []C14_OverwritePerIndex /\ C14_IndexNeverRemoved

\* C14 witness: a batch for index 0 alone was applied to a store that held
\* indices 0 and 1; index 0 changed and index 1 is as it was.
C14_OneOfTwoOverwritten ==
    /\ last_op.op = "update_gpu_info"
    /\ DOMAIN last_op.before = {0, 1}
    /\ Len(last_op.batch) = 1
    /\ gpu_info[0] # last_op.before[0]
    /\ gpu_info[1] = last_op.before[1]

\* The SM utilization of the ProcessSample stored under (g, pid), None when
\* no sample is stored there.
StoredSmUtil(g, pid) ==
    IF <<g, pid>> \in DOMAIN processes THEN processes[<<g, pid>>].sample.sm_util ELSE None

\* The UUIDs of the stored GpuInfo entries.
StoredUuids == {gpu_info[i].uuid : i \in DOMAIN gpu_info}

\* C15. In every reachable state get_enriched_processes returns exactly one
\* row for each current ComputeApp row, with its pid and VRAM, the rows with
\* no matching ProcessSample or ProcessSystemInfo included: their fields of
\* the missing source are defaulted (SM utilization absent, CPU 0, RSS 0,
\* elapsed empty).  No row is returned for a pid that has no ComputeApp row.
C15_MembershipFromComputeApps ==
    \A view \in EnrichedViews :
        /\ Len(view) = Len(compute_apps)
        /\ {view[i].row : i \in DOMAIN view} = DOMAIN compute_apps
        /\ \A i \in DOMAIN view :
               LET r == view[i]
                   app == compute_apps[r.row]
               IN /\ r.pid = app.pid
                  /\ r.vram_mib = app.vram_used_mib
                  /\ <<r.gpu_idx, r.pid>> \notin DOMAIN processes => r.sm_util = None
                  /\ r.pid \notin DOMAIN process_sys_info =>
                         r.cpu_percent = 0 /\ r.rss_mb = 0 /\ r.elapsed = ""

\* C15 witness: a ComputeApp row has neither a ProcessSample nor a
\* ProcessSystemInfo, while the store holds stats and a sample of pids that
\* have no ComputeApp row.
C15_RowWithoutSampleOrStats ==
    /\ \E k \in DOMAIN compute_apps :
           /\ compute_apps[k].pid \notin DOMAIN process_sys_info
           /\ \A g \in GpuIdx : <<g, compute_apps[k].pid>> \notin DOMAIN processes
    /\ \E p \in DOMAIN process_sys_info : p \notin pids_of(compute_apps)
    /\ \E key \in DOMAIN processes : key[2] \notin pids_of(compute_apps)

\* C16. Join correctness: for a ComputeApp row whose UUID is the UUID of a
\* stored GpuInfo with index i, the enriched row has device index i, the
\* app's VRAM, the SM utilization of the ProcessSample stored under (i, pid),
\* and the CPU percent, the RSS in MB (rss_kb / 1024, integer division) and
\* the elapsed string of the ProcessSystemInfo stored under pid.
C16_JoinCorrect ==
    \A view \in EnrichedViews : \A k \in DOMAIN view : \A i \in DOMAIN gpu_info :
        LET r == view[k]
            app == compute_apps[r.row]
        IN gpu_info[i].uuid = app.gpu_uuid =>
               /\ r.gpu_idx = i
               /\ r.vram_mib = app.vram_used_mib
               /\ r.sm_util = StoredSmUtil(i, app.pid)
               /\ app.pid \in DOMAIN process_sys_info =>
                      /\ r.cpu_percent = process_sys_info[app.pid].cpu_percent
                      /\ r.rss_mb = process_sys_info[app.pid].rss_kb \div 1024
                      /\ r.elapsed = process_sys_info[app.pid].elapsed

\* C16 (the part the code keeps): the join is correct whenever no two stored
\* GpuInfo entries carry the same UUID.
C16_JoinCorrectForUniqueUuids ==
    (\A i, j \in DOMAIN gpu_info : gpu_info[i].uuid = gpu_info[j].uuid => i = j)
        => C16_JoinCorrect

\* C17. When the UUID of a ComputeApp row matches no stored GpuInfo (none
\* may have arrived yet), get_enriched_processes still returns the row, with
\* device index 0 and the SM utilization of the ProcessSample stored under
\* (0, pid), if any; the UUID-to-index map is rebuilt from the stored GpuInfo
\* on every call, so a resolved row carries the index of an entry that holds
\* its UUID now.
C17_UnresolvedUuidFallsBackToZero ==
    \A view \in EnrichedViews :
        /\ {view[k].row : k \in DOMAIN view} = DOMAIN compute_apps
        /\ \A k \in DOMAIN view :
               LET r == view[k]
                   app == compute_apps[r.row]
               IN IF app.gpu_uuid \notin StoredUuids
                    THEN r.gpu_idx = 0 /\ r.sm_util = StoredSmUtil(0, app.pid)
                    ELSE /\ r.gpu_idx \in DOMAIN gpu_info
                         /\ gpu_info[r.gpu_idx].uuid = app.gpu_uuid

\* C17 witness: GpuInfo is stored, a ComputeApp row carries a UUID that no
\* stored entry has, and a ProcessSample with SM utilization 42 is stored
\* under (0, pid) of that row.
C17_UnresolvedRowWithSample ==
    /\ gpu_info # EmptyMap
    /\ \E k \in DOMAIN compute_apps :
           /\ compute_apps[k].gpu_uuid \notin StoredUuids
           /\ StoredSmUtil(0, compute_apps[k].pid) = 42

\* C18. The list get_enriched_processes returns is sorted by device index
\* ascending and, among the rows of one device index, by VRAM descending.
C18_SortedByDeviceThenVram ==
    \A view \in EnrichedViews : \A i, j \in DOMAIN view :
        i < j =>
            \/ view[i].gpu_idx < view[j].gpu_idx
            \/ view[i].gpu_idx = view[j].gpu_idx /\ view[i].vram_mib >= view[j].vram_mib

\* C18 witness: three ComputeApp rows on two resolved devices, which the
\* sort had to reorder.
C18_ThreeRowsReordered ==
    /\ Len(compute_apps) = 3
    /\ \E view \in EnrichedViews :
           /\ view[1].row # 1
           /\ view[1].gpu_idx # view[3].gpu_idx
           /\ view[1].vram_mib > view[2].vram_mib

\* C19. The error slot is a single slot: applying an Error(reason) or an
\* Exited(source) message sets it to that message's text, whatever it held;
\* applying a GpuSample message clears it; applying a message of any other
\* kind leaves it as it is.
C19_ErrorSlot ==
    [][ applied' # applied =>
            LET msg == Head(chan) IN
                /\ msg.kind = "Error" => error' = <<msg.body>>
                /\ msg.kind = "Exited" => error' = << <<msg.body, "exited">> >>
                /\ msg.kind = "GpuSample" => error' = <<>>
                /\ msg.kind \in {"ProcessSample", "GpuInfo", "ComputeApps",
                                 "ProcessSystemInfo"} => error' = error
      ]_vars

\* C19 witness: an Error, an Exited and a GpuSample message have been
\* applied, and the slot holds the text of the pmon stream's Exited message.
C19_ExitedTextInSlot ==
    /\ {"Error", "Exited", "GpuSample"} \subseteq applied_kinds
    /\ error = << <<"pmon", "exited">> >>

\* C20 (steps). A step that applies a message leaves the consumer in its
\* drain loop, the receiver alive and every task and child as they were:
\* the consumer does not stop because a source ended.  A streaming task that
\* ends changes no other task.
C20_ConsumerGoesOn ==
    [][ /\ applied' # applied =>
               /\ app_pc' = "drain"
               /\ rx' = rx
               /\ pc' = pc
               /\ child' = child
        /\ \A s \in Streams :
               pc'[s] = "done" /\ pc[s] # "done" =>
                   /\ \A t \in Tasks \ {s} : pc'[t] = pc[t]
                   /\ app_pc' = app_pc
                   /\ rx' = rx
                   /\ child' = child
      ]_vars

\* The ordinals of the messages a task sends when the tools yield FullBudget
\* data messages: a stream adds its terminal message, and the periodic task
\* may follow each ComputeApps message with the empty ProcessSystemInfo for
\* no pids.
Ordinals == 1..(2 * FullBudget)

\* C20 (ordinals). Every message about to be sent has its ordinal in Ordinals.
C20_OrdinalsCovered ==
    \A t \in Tasks : pending[t] # Absent => pending[t][1].n \in Ordinals

\* C20 (progress). Once a streaming source has ended, a message that
\* another task is about to send is still accepted and applied, unless the
\* receiver is dropped first.
C20_OthersStillApplied ==
    \A s \in Streams : \A t \in Tasks \ {s} : \A n \in Ordinals :
        (/\ stream_end[s] # "none"
         /\ rx = "alive"
         /\ pending[t] # Absent
         /\ pending[t][1].n = n)
            ~> (applied[t].last >= n \/ rx # "alive")

\* C20. After one streaming source has terminated, the pipeline keeps
\* running: the other streaming source and the periodic queries keep
\* producing messages and the consumer keeps applying them; the consumer
\* loop does not stop because a source exited.
C20_PipelineContinues ==
    []C20_OrdinalsCovered /\ C20_ConsumerGoesOn /\ C20_OthersStillApplied

\* C20 witness: the pmon stream ended and its Exited message was applied;
\* after that a GpuSample of the running dmon stream was applied (it cleared
\* the error slot), and the receiver is alive.
C20_SampleAppliedAfterExit ==
    /\ stream_end["pmon"] = "eof"
    /\ applied["pmon"].count >= 1
    /\ pc["pmon"] = "done"
    /\ stream_end["dmon"] = "none"
    /\ applied["dmon"].count >= 1
    /\ error = Absent
    /\ topo_queries = <<"ok">>
    /\ rx = "alive"

\* C21 (states). At most one topology query is made, and exactly one has
\* been made once App::run is past it, so before any child is spawned.
C21_OneTopologyQuery ==
    /\ Len(topo_queries) <= 1
    /\ app_pc # "topology" => Len(topo_queries) = 1
    /\ (\E s \in Streams : spawned[s] > 0) => Len(topo_queries) = 1

\* C21 (steps). The store's topology changes only in the step of the
\* topology query, from absent and with no child spawned; no step that
\* applies a message changes it.
C21_TopologySetAtStartOnly ==
    [][ /\ topology' # topology =>
               /\ topology = Absent
               /\ app_pc = "topology"
               /\ \A s \in Streams : spawned[s] = 0
        /\ applied' # applied => topology' = topology
      ]_vars

\* C21. The topology query is issued exactly once per session, before the
\* streaming processes are spawned; the store's topology is set at most once
\* (at start-up) and no message applied afterwards ever changes it.
C21_TopologyOnceAtStart == []C21_OneTopologyQuery /\ C21_TopologySetAtStartOnly

\* C21 witness: the topology is stored, the children were spawned, and a
\* GpuInfo and an Exited message have been applied since.
C21_TopologyKeptWhileApplying ==
    /\ topology = Some("topo")
    /\ topo_queries = <<"ok">>
    /\ \A s \in Streams : spawned[s] = 1
    /\ {"GpuInfo", "Exited"} \subseteq applied_kinds

\* The start-up topology query failed: nvidia-smi could not be started, or
\* it exited with an error.
TopologyQueryFailed ==
    topo_queries # <<>> /\ topo_queries[1] \in {"err", "exit_err"}

\* C22. When the start-up topology query fails, the failure is recorded in
\* the error slot as App::run goes on to the spawn, and the topology stays
\* absent for the whole session; the spawn is still attempted.
C22_TopologyFailureSurfaced ==
    TopologyQueryFailed =>
        /\ topology = Absent
        /\ app_pc = "spawn" => error = Some(<<"Topology", "e">>) /\ ENABLED SpawnOk

\* C22 (the part the code keeps): the same for a query that returned Err
\* (nvidia-smi could not be started).
C22_StartErrorSurfaced ==
    (topo_queries # <<>> /\ topo_queries[1] = "err") =>
        /\ topology = Absent
        /\ app_pc = "spawn" => error = Some(<<"Topology", "e">>) /\ ENABLED SpawnOk

\* C22 (the part the code keeps): after a topology query that returned Err
\* the sources run and their messages are applied.
C22_AppliedAfterStartError ==
    /\ topo_queries = <<"err">>
    /\ {"GpuSample", "Exited"} \subseteq applied_kinds

\* A step in which a one-shot tool that the periodic task started exits by
\* itself: query_gpu_info, query_compute_apps or query_process_info returns
\* the output of a tool that ran.
QueryToolExits ==
    /\ pc["query"] \in {"q_info", "q_apps", "q_ps"}
    /\ pc'["query"] \in {"s_info", "s_apps", "s_ps"}
    /\ last_query' \in {"exit_ok", "exit_err"}

\* C23 (the part the code keeps): once the receiver and the monitor are
\* dropped, at shutdown or by a spawn that failed part-way, no streaming
\* child is running.
C23_StreamingChildrenKilled ==
    rx = "dropped" => \A s \in Streams : child[s] # "running"

\* C23. Once the supervisor's owning handle is released, no external process
\* that was started is left running: no streaming child is running, and no
\* one-shot query process is still there to exit by itself later.
C23_NoProcessOutlivesHandle ==
    []C23_StreamingChildrenKilled /\ [][rx = "dropped" => ~QueryToolExits]_vars

\* The message the consumer applies next.
C24_Head == Head(chan)

\* C24. Each applied message changes one entity of the store and leaves the
\* others as they were: a GpuSample only the history of its device and the
\* sample counter, a ProcessSample only the process map, a GpuInfo only the
\* device-info map, a ComputeApps only the compute-app list, a
\* ProcessSystemInfo only the sys-info map, an Error or Exited nothing; and
\* the step that renders the store through its read accessors (draw) leaves
\* the store unchanged.
C24_OneEntityPerMessage ==
    [][/\ applied' # applied =>
            /\ UNCHANGED <<max_samples, topology>>
            /\ C24_Head.kind = "GpuSample" =>
                  /\ UNCHANGED <<processes, compute_apps, process_sys_info, gpu_info>>
                  /\ total_samples' = total_samples + 1
                  /\ DOMAIN gpus' = DOMAIN gpus \cup {C24_Head.body.gpu_idx}
                  /\ \A g \in DOMAIN gpus \ {C24_Head.body.gpu_idx} :
                        gpus'[g] = gpus[g]
            /\ C24_Head.kind = "ProcessSample" =>
                  UNCHANGED <<gpus, total_samples, compute_apps, process_sys_info,
                              gpu_info>>
            /\ C24_Head.kind = "GpuInfo" =>
                  UNCHANGED <<gpus, total_samples, processes, compute_apps,
                              process_sys_info>>
            /\ C24_Head.kind = "ComputeApps" =>
                  UNCHANGED <<gpus, total_samples, processes, process_sys_info,
                              gpu_info>>
            /\ C24_Head.kind = "ProcessSystemInfo" =>
                  UNCHANGED <<gpus, total_samples, processes, compute_apps,
                              gpu_info>>
            /\ C24_Head.kind \in {"Error", "Exited"} => UNCHANGED storeVars
       /\ (app_pc = "draw" /\ app_pc' = "drain") => UNCHANGED storeVars
      ]_vars

\* C24 witness: a device sample was applied while the process map, the
\* device-info map or the compute-app list held an entry.
C24_SampleAppliedBesideOthers ==
    /\ total_samples > 0
    /\ processes # EmptyMap
    /\ "ProcessSample" \in applied_kinds
    /\ app_pc = "draw"

\* The number of DeviceSample messages applied so far.
SamplesAppliedCount == pushes[0] + pushes[1]

\* C25, the state part: the sample counter is the number of DeviceSample
\* messages applied, whatever was evicted, and gpu_indices enumerates, in
\* ascending order, exactly the device indices a DeviceSample was applied for.
C25_CounterAndIndices ==
    /\ total_samples = SamplesAppliedCount
    /\ {gpu_indices[i] : i \in 1..Len(gpu_indices)} = {g \in GpuIdx : pushes[g] > 0}
    /\ \A i \in 1..(Len(gpu_indices) - 1) : gpu_indices[i] < gpu_indices[i + 1]

\* C25, the step part: add_sample creates the history of a device not seen
\* before, appends the sample as the newest entry of that device's history,
\* leaves the other histories alone and adds exactly 1 to the counter; the
\* counter never decreases and no device index is ever dropped.
C25_AddSampleStep ==
    [][/\ total_samples' >= total_samples
       /\ DOMAIN gpus \subseteq DOMAIN gpus'
       /\ pushes' # pushes =>
             LET g == CHOOSE x \in GpuIdx : pushes'[x] # pushes[x] IN
             /\ total_samples' = total_samples + 1
             /\ DOMAIN gpus' = DOMAIN gpus \cup {g}
             /\ gpus'[g] # <<>>
             /\ gpus'[g][Len(gpus'[g])].sample = last_op'.sample
             /\ last_op'.sample.gpu_idx = g
             /\ \A h \in DOMAIN gpus \ {g} : gpus'[h] = gpus[h]
      ]_vars

\* C25. The sample counter and the device indices follow the DeviceSample
\* messages applied.
C25_SamplesCounted == []C25_CounterAndIndices /\ C25_AddSampleStep

\* C25 witness: samples were applied for both devices, and more were applied
\* than the histories still hold (some were evicted).
C25_CountedPastEviction ==
    /\ DOMAIN gpus = {0, 1}
    /\ max_samples > 0
    /\ total_samples > Len(gpus[0]) + Len(gpus[1])
    /\ Len(gpus[0]) = max_samples

\* ======================================================================
\* The history queries (data.rs:38-81) over one device whose metric takes
\* two values or is absent.
\* ======================================================================
SeriesSamples == [gpu_idx : {0}, sm_util : {None, 10, 20}]

\* The extractor |s| s.sm_util (dashboard.rs:108, charts.rs:43).
sm_util_of(sample) == sample.sm_util

\* Iterator::rev
rev(s) == [i \in 1..Len(s) |-> s[Len(s) + 1 - i]]

\* Iterator::take
take(s, count) == SubSeq(s, 1, IF count < Len(s) THEN count ELSE Len(s))

\* GpuHistory::latest: samples.back().map(|ts| &ts.sample)
latest(samples) ==
    IF samples = <<>> THEN Absent ELSE Some(samples[Len(samples)].sample)

\* As if recent_values collected newest first and never reversed back.
recent_values_newest_first(samples, count) ==
    LET kept == SelectSeq(take(rev(samples), count),
                          LAMBDA e : sm_util_of(e.sample) # None)
    IN [i \in 1..Len(kept) |-> sm_util_of(kept[i].sample)]

\* GpuHistory::recent_values with the extractor sm_util_of:
\* iter().rev().take(count).filter_map(extractor)
\* .collect().into_iter().rev().collect()
recent_values(samples, count) ==
    LET kept == SelectSeq(take(rev(samples), count),
                          LAMBDA e : sm_util_of(e.sample) # None)
    IN rev([i \in 1..Len(kept) |-> sm_util_of(kept[i].sample)])

\* Instant::duration_since: zero when the other instant is later.
duration_since(t, earlier) == IF t >= earlier THEN t - earlier ELSE 0

\* As if chart_data paired each value with the seconds elapsed, not negated.
chart_data_positive_age(samples, t) ==
    LET kept == SelectSeq(samples, LAMBDA e : sm_util_of(e.sample) # None)
    IN [i \in 1..Len(kept) |->
           <<duration_since(t, kept[i].timestamp), sm_util_of(kept[i].sample)>>]

\* GpuHistory::chart_data with the extractor sm_util_of, called when the
\* clock reads t:
\* iter().filter_map(extractor ... (-secs_ago, v)).collect()
chart_data(samples, t) ==
    LET kept == SelectSeq(samples, LAMBDA e : sm_util_of(e.sample) # None)
    IN [i \in 1..Len(kept) |->
           <<0 - duration_since(t, kept[i].timestamp), sm_util_of(kept[i].sample)>>]

NextSeries == Tick \/ \E sample \in SeriesSamples : AddSample(sample)

SpecSeries == InitHist /\ [][NextSeries]_vars

\* The values of the metric the history of device 0 holds, oldest first.
SmValues ==
    LET kept == SelectSeq(gpus[0], LAMBDA e : e.sample.sm_util # None)
    IN [i \in 1..Len(kept) |-> kept[i].sample.sm_util]

\* The last k elements of a sequence (all of them when it has fewer).
LastOf(s, k) == SubSeq(s, IF k < Len(s) THEN Len(s) - k + 1 ELSE 1, Len(s))

\* The counts a history query is asked for.
Counts == 0..(MaxCapacity + 1)

\* C26, latest: latest() is the sample pushed last on the device, and is
\* absent only when the history is empty.
C26_LatestIsLastPushed ==
    0 \in DOMAIN gpus =>
        /\ latest(gpus[0]) # Absent
        /\ gpus[0][Len(gpus[0])].n = pushes[0]
        /\ latest(gpus[0]) = Some(gpus[0][Len(gpus[0])].sample)

\* C26. recent_values(N, metric) returns the last N values of the metric
\* held by the history, oldest first, and latest() the sample pushed last.
C26_RecentValuesAndLatest ==
    /\ C26_LatestIsLastPushed
    /\ 0 \in DOMAIN gpus =>
          \A count \in Counts :
              recent_values(gpus[0], count) = LastOf(SmValues, count)

\* C26 (what the code computes): recent_values(N, metric) returns the values
\* of the metric present in the last N samples, oldest first.
C26_ValuesOfLastSamples ==
    0 \in DOMAIN gpus =>
        \A count \in Counts :
            LET window == LastOf(gpus[0], count)
                kept == SelectSeq(window, LAMBDA e : e.sample.sm_util # None)
            IN recent_values(gpus[0], count)
                   = [i \in 1..Len(kept) |-> kept[i].sample.sm_util]

\* A history of two different values in which recent_values(2, ..) is asked.
C26_TwoValuesOldestFirst ==
    /\ 0 \in DOMAIN gpus
    /\ recent_values(gpus[0], 2) = <<10, 20>>

\* The positions of the history of device 0 whose sample has the metric.
SmPresent == {i \in 1..Len(gpus[0]) : gpus[0][i].sample.sm_util # None}

\* C27. chart_data(metric), called now, returns one (age, value) point per
\* stored sample that has the metric, oldest first, and none for the samples
\* that lack it; every age is <= 0 and the ages never decrease along the
\* series; the history is ordered by time.
C27_ChartSeries ==
    0 \in DOMAIN gpus =>
        LET series == chart_data(gpus[0], now) IN
        /\ Len(series) = Cardinality(SmPresent)
        /\ \A i \in SmPresent :
              series[Cardinality({j \in SmPresent : j <= i})]
                  = <<gpus[0][i].timestamp - now, gpus[0][i].sample.sm_util>>
        /\ \A k \in 1..Len(series) : series[k][1] <= 0
        /\ \A k \in 1..(Len(series) - 1) : series[k][1] <= series[k + 1][1]
        /\ \A i \in 1..(Len(gpus[0]) - 1) :
              gpus[0][i].timestamp <= gpus[0][i + 1].timestamp

\* C27 witness: three samples are stored, the middle one without the metric,
\* and the series holds the two others with different ages.
C27_SeriesSkipsAbsent ==
    /\ 0 \in DOMAIN gpus
    /\ Len(gpus[0]) = 3
    /\ gpus[0][2].sample.sm_util = None
    /\ Len(chart_data(gpus[0], now)) = 2
    /\ chart_data(gpus[0], now)[1][1] < chart_data(gpus[0], now)[2][1]
    /\ chart_data(gpus[0], now)[2][1] < 0

\* ======================================================================
\* The topology parser (parser.rs:310-415). A line of the tool's output is
\* a record: indented (it starts with white space) and parts, its
\* white-space separated tokens (<<>> for a blank line).
\* ======================================================================
Line(indented, parts) == [indented |-> indented, parts |-> parts]

\* str::starts_with for the tokens that occur.
starts_with_GPU(tok) == tok \in {"GPU", "GPU0", "GPU1"}
starts_with_GPU0(tok) == tok = "GPU0"
starts_with_Legend(tok) == tok = "Legend:"

\* GpuLink::from_str
from_str(tok) ==
    CASE tok = "X" -> Some("Self_")
      [] tok = "PIX" -> Some("PIX")
      [] tok = "PXB" -> Some("PXB")
      [] tok = "PHB" -> Some("PHB")
      [] tok = "NODE" -> Some("NODE")
      [] tok = "SYS" -> Some("SYS")
      [] tok = "NV1" -> Some(<<"NVLink", 1>>)
      [] tok = "NV2" -> Some(<<"NVLink", 2>>)
      [] OTHER -> Absent

\* GpuTopology::default
GpuTopology_default ==
    [gpu_count |-> 0, matrix |-> <<>>, cpu_affinity |-> <<>>, numa_affinity |-> <<>>]

\* The loop of parse_topo_line from the token at position k (1-based; the
\* code's i is k - 1) on: acc holds row, cpu_affinity and numa_affinity;
\* gpu_count and matrix are those of the topology before the line.
RECURSIVE topo_tokens(_, _, _, _)
topo_tokens(topo, parts, k, acc) ==
    IF k > Len(parts) THEN acc
    ELSE LET part == parts[k]
             i == k - 1
             next ==
               IF from_str(part) # Absent
               THEN [acc EXCEPT !.row = Append(@, Some(from_str(part)[1]))]
               ELSE IF i <= topo.gpu_count + 1
               THEN [acc EXCEPT !.row = Append(@, Absent)]
               ELSE IF Len(acc.cpu_affinity) < Len(topo.matrix) + 1
               THEN [acc EXCEPT !.cpu_affinity = Append(@, part)]
               ELSE IF Len(acc.numa_affinity) < Len(topo.matrix) + 1
               THEN [acc EXCEPT !.numa_affinity = Append(@, part)]
               ELSE acc
         IN topo_tokens(topo, parts, k + 1, next)

\* GpuTopology::parse_topo_line
parse_topo_line(topo, line) ==
    IF line.parts = <<>> \/ ~starts_with_GPU(line.parts[1]) THEN topo
    ELSE LET acc == topo_tokens(topo, line.parts, 2,
                                [row |-> <<>>, cpu_affinity |-> topo.cpu_affinity,
                                 numa_affinity |-> topo.numa_affinity])
         IN IF acc.row # <<>>
            THEN [gpu_count |-> IF Len(acc.row) > topo.gpu_count
                                THEN Len(acc.row) ELSE topo.gpu_count,
                  matrix |-> Append(topo.matrix, acc.row),
                  cpu_affinity |-> acc.cpu_affinity,
                  numa_affinity |-> acc.numa_affinity]
            ELSE [topo EXCEPT !.cpu_affinity = acc.cpu_affinity,
                              !.numa_affinity = acc.numa_affinity]

\* The inner loop of GpuTopology::parse over lines[k..]: stop at a blank line
\* or at a line that starts with "Legend", parse the lines whose first token
\* starts with "GPU".
RECURSIVE parse_data_lines(_, _, _)
parse_data_lines(topo, lines, k) ==
    IF k > Len(lines) THEN topo
    ELSE LET data_line == lines[k] IN
         IF \/ data_line.parts = <<>>
            \/ (~data_line.indented /\ starts_with_Legend(data_line.parts[1]))
         THEN topo
         ELSE IF starts_with_GPU(data_line.parts[1])
         THEN parse_data_lines(parse_topo_line(topo, data_line), lines, k + 1)
         ELSE parse_data_lines(topo, lines, k + 1)

\* GpuTopology::parse: from the first line whose trimmed text starts with
\* "GPU0" on, that line included.
parse(lines) ==
    LET found == {i \in 1..Len(lines) :
                    lines[i].parts # <<>> /\ starts_with_GPU0(lines[i].parts[1])}
    IN IF found = {} THEN GpuTopology_default
       ELSE parse_data_lines(GpuTopology_default, lines,
                             CHOOSE i \in found : \A j \in found : i <= j)

\* ---- the outputs of `nvidia-smi topo -m` for two devices
BridgeTokens == {"PIX", "PXB", "PHB"}
CpuTokens == {"0-15", "16-31"}
NumaTokens == {"0", "1"}
Preambles == {<<>>, <<Line(FALSE, <<"Mon", "Nov">>)>>}
Endings ==
    {<<>>,
     <<Line(FALSE, <<>>), Line(FALSE, <<"Legend:">>),
       Line(TRUE, <<"X", "=", "Self">>)>>,
     <<Line(FALSE, <<"Legend:">>), Line(TRUE, <<"X", "=", "Self">>)>>}

\* The block: the column header, then one row per device.
TopoBlock(bridge, c, n, id_column) ==
    <<Line(TRUE, <<"GPU0", "GPU1", "CPU", "Affinity", "NUMA", "Affinity">>
                 \o (IF id_column THEN <<"GPU", "NUMA", "ID">> ELSE <<>>)),
      Line(FALSE, <<"GPU0", "X", bridge, c[1], n[1]>>
                  \o (IF id_column THEN <<"N/A">> ELSE <<>>)),
      Line(FALSE, <<"GPU1", bridge, "X", c[2], n[2]>>
                  \o (IF id_column THEN <<"N/A">> ELSE <<>>))>>

TopoInputs ==
    [bridge : BridgeTokens, c : CpuTokens \X CpuTokens, n : NumaTokens \X NumaTokens,
     id_column : BOOLEAN, pre : Preambles, ending : Endings]

TopoOutput(in) ==
    in.pre \o TopoBlock(in.bridge, in.c, in.n, in.id_column) \o in.ending

\* query_topology returns Ok(GpuTopology::parse(&stdout)) (process.rs:38-39)
\* and App::run stores it (app.rs:76-77).
ParseTopology(in) ==
    /\ app_pc = "topology"
    /\ topology' = Some(parse(TopoOutput(in)))
    /\ topo_queries' = Append(topo_queries, "ok")
    /\ last_op' = [op |-> "parse", in |-> in]
    /\ app_pc' = after_topology
    /\ UNCHANGED <<now, uiVars, gpus, max_samples, total_samples, processes, compute_apps,
                   process_sys_info, gpu_info, error, rx, chan, child, pc, pending,
                   query_pids, hung, budget, emitted, applied, applied_kinds,
                   spawned, stream_end, send_failed, last_query, pushes>>

NextTopo == \E in \in TopoInputs : ParseTopology(in)

SpecTopo == InitLean /\ [][NextTopo]_vars

\* The topology held once the output was parsed.
Parsed == topology[1]

\* C28. Parsing the adjacency block of two devices (the column header, then
\* one row per device with the self link on the diagonal, a PCIe bridge link
\* off it, and the CPU and NUMA tokens) yields device count 2, a matrix of
\* 2 rows by 2 columns with the self links on the diagonal and the bridge
\* link in the two other positions, and the two CPU and the two NUMA
\* affinity entries of the device rows.
C28_TwoDeviceBlockParsed ==
    last_op.op = "parse" =>
        /\ Parsed.gpu_count = 2
        /\ Len(Parsed.matrix) = 2
        /\ \A r \in 1..Len(Parsed.matrix) : Len(Parsed.matrix[r]) = 2
        /\ Parsed.matrix[1] = <<Some("Self_"), Some(last_op.in.bridge)>>
        /\ Parsed.matrix[2] = <<Some(last_op.in.bridge), Some("Self_")>>
        /\ Parsed.cpu_affinity = last_op.in.c
        /\ Parsed.numa_affinity = last_op.in.n

\* C28 (what the code computes): the header is parsed as a row, and the
\* first token after the links of the second device row as a link.
C28_HeaderParsedAsRow ==
    last_op.op = "parse" =>
        /\ Parsed.gpu_count = 3
        /\ Parsed.matrix = <<<<Absent>>,
                             <<Some("Self_"), Some(last_op.in.bridge)>>,
                             <<Some(last_op.in.bridge), Some("Self_"), Absent>>>>
        /\ Parsed.cpu_affinity = <<"CPU", last_op.in.c[1], last_op.in.n[2]>>
        /\ Parsed.numa_affinity[1] = "Affinity"
        /\ Parsed.numa_affinity[2] = last_op.in.n[1]

\* ======================================================================
\* The line parsers of the two streams (parser.rs:29-72, 202-235) and the
\* reader tasks that apply them to every line read (process.rs:124-147,
\* 158-181). A line is Line(indented, parts) as above.
\* ======================================================================
\* str::parse::<u32> for the decimal tokens that occur; any other token is
\* an Err.
NumValue ==
    ("0" :> 0) @@ ("1" :> 1) @@ ("7" :> 7) @@ ("13" :> 13) @@ ("14" :> 14)
    @@ ("30" :> 30) @@ ("69" :> 69) @@ ("99" :> 99) @@ ("100" :> 100)
    @@ ("101" :> 101) @@ ("1531" :> 1531) @@ ("3615" :> 3615)

parse_u32(tok) == IF tok \in DOMAIN NumValue THEN Some(NumValue[tok]) ELSE Absent

\* str::starts_with('#') for the tokens that occur.
starts_with_hash(tok) == tok \in {"#", "#Idx"}

\* As if the sentinel were read as the number 0.
parse_optional_sentinel_zero(tok) ==
    IF tok = "-" THEN 0
    ELSE IF parse_u32(tok) = Absent THEN None ELSE parse_u32(tok)[1]

\* GpuSample::parse_optional and ProcessSample::parse_optional: "-" is None,
\* any other token is trimmed.parse().ok().
parse_optional(tok) ==
    IF tok = "-" THEN None
    ELSE IF parse_u32(tok) = Absent THEN None ELSE parse_u32(tok)[1]

\* As if every column of a device-metric line were parsed with `?`: a token
\* that is neither a number nor the sentinel discards the line.
GpuSample_parse_line_strict(line) ==
    LET parts == line.parts IN
    IF parts = <<>> \/ starts_with_hash(parts[1]) THEN Absent
    ELSE IF Len(parts) < 12 THEN Absent
    ELSE IF parse_u32(parts[1]) = Absent THEN Absent
    ELSE IF \E k \in 2..12 : parts[k] # "-" /\ parse_u32(parts[k]) = Absent
    THEN Absent
    ELSE Some([gpu_idx |-> parse_u32(parts[1])[1],
               power_w |-> parse_optional(parts[2]),
               gpu_temp_c |-> parse_optional(parts[3]),
               mem_temp_c |-> parse_optional(parts[4]),
               sm_util |-> parse_optional(parts[5]),
               mem_util |-> parse_optional(parts[6]),
               enc_util |-> parse_optional(parts[7]),
               dec_util |-> parse_optional(parts[8]),
               jpg_util |-> parse_optional(parts[9]),
               ofa_util |-> parse_optional(parts[10]),
               mem_clock_mhz |-> parse_optional(parts[11]),
               gpu_clock_mhz |-> parse_optional(parts[12])])

\* GpuSample::parse_line
GpuSample_parse_line(line) ==
    LET parts == line.parts IN
    IF parts = <<>> \/ starts_with_hash(parts[1]) THEN Absent
    ELSE IF Len(parts) < 12 THEN Absent
    ELSE IF parse_u32(parts[1]) = Absent THEN Absent
    ELSE Some([gpu_idx |-> parse_u32(parts[1])[1],
               power_w |-> parse_optional(parts[2]),
               gpu_temp_c |-> parse_optional(parts[3]),
               mem_temp_c |-> parse_optional(parts[4]),
               sm_util |-> parse_optional(parts[5]),
               mem_util |-> parse_optional(parts[6]),
               enc_util |-> parse_optional(parts[7]),
               dec_util |-> parse_optional(parts[8]),
               jpg_util |-> parse_optional(parts[9]),
               ofa_util |-> parse_optional(parts[10]),
               mem_clock_mhz |-> parse_optional(parts[11]),
               gpu_clock_mhz |-> parse_optional(parts[12])])

\* ProcessSample::parse_line; command, parts[9..].join(" "), is kept as the
\* sequence of its tokens.
ProcessSample_parse_line(line) ==
    LET parts == line.parts IN
    IF parts = <<>> \/ starts_with_hash(parts[1]) THEN Absent
    ELSE IF Len(parts) < 10 THEN Absent
    ELSE IF parse_u32(parts[1]) = Absent \/ parse_u32(parts[2]) = Absent THEN Absent
    ELSE Some([gpu_idx |-> parse_u32(parts[1])[1],
               pid |-> parse_u32(parts[2])[1],
               process_type |-> parts[3],
               sm_util |-> parse_optional(parts[4]),
               mem_util |-> parse_optional(parts[5]),
               enc_util |-> parse_optional(parts[6]),
               dec_util |-> parse_optional(parts[7]),
               command |-> SubSeq(parts, 10, Len(parts))])

\* ---- the lines nvidia-smi dmon and pmon print
ExampleParts == <<"0", "69", "13", "-", "100", "30", "0", "0", "-", "-", "3615", "1531">>

\* The example with the sentinel moved: field k holds "-" when it held a
\* number and "7" when it held "-".
Flipped(k) ==
    [ExampleParts EXCEPT ![k + 1] = IF @ = "-" THEN "7" ELSE "-"]

DmonHeaders ==
    {Line(FALSE, <<"#", "gpu", "pwr", "gtemp", "mtemp", "sm", "mem", "enc", "dec",
                   "jpg", "ofa", "mclk", "pclk">>),
     Line(FALSE, <<"#Idx", "W", "C", "C", "%", "%", "%", "%", "%", "%", "MHz", "MHz">>)}

BlankLines == {Line(FALSE, <<>>), Line(TRUE, <<>>)}

DmonLines ==
    {Line(TRUE, ExampleParts), Line(TRUE, ExampleParts \o <<"0">>),
     Line(TRUE, [ExampleParts EXCEPT ![1] = "1"]),
     Line(TRUE, [ExampleParts EXCEPT ![2] = "N/A"]),
     Line(TRUE, [ExampleParts EXCEPT ![1] = "N/A"]),
     Line(TRUE, SubSeq(ExampleParts, 1, 11)), Line(TRUE, <<"0">>)}
    \cup {Line(TRUE, Flipped(k)) : k \in 1..11}
    \cup DmonHeaders \cup BlankLines

PmonLines ==
    {Line(TRUE, <<"0", "100", "C", "-", "-", "-", "-", "-", "-", "llama-server">>),
     Line(TRUE, <<"1", "101", "C", "99", "14", "-", "-", "-", "-", "python", "-u">>),
     Line(TRUE, <<"0", "-", "-", "-", "-", "-", "-", "-", "-", "-">>),
     Line(TRUE, <<"0", "100", "C", "-", "-", "-", "-", "-", "-">>),
     Line(TRUE, <<"0", "100", "C", "N/A", "14", "-", "-", "-", "-", "python">>),
     Line(TRUE, <<"N/A", "100", "C", "99", "14", "-", "-", "-", "-", "python">>),
     Line(FALSE, <<"#", "gpu", "pid", "type", "sm", "mem", "enc", "dec", "jpg",
                   "ofa", "command">>),
     Line(FALSE, <<"#Idx", "#", "C/G", "%", "%", "%", "%", "%", "%", "name">>)}
    \cup BlankLines

LinesOf(s) == IF s = "dmon" THEN DmonLines ELSE PmonLines

\* As if a blank line were read as the default sample.
line_result_blank_is_default(s, line) ==
    IF line.parts = <<>>
    THEN Some([gpu_idx |-> 0, pid |-> 0, sm_util |-> None])
    ELSE IF s = "dmon" THEN GpuSample_parse_line(line)
    ELSE ProcessSample_parse_line(line)

\* The parser each reader task calls on a line (process.rs:131, 165).
line_result(s, line) ==
    IF s = "dmon" THEN GpuSample_parse_line(line) ELSE ProcessSample_parse_line(line)

\* Ok(Some(line)) in a reader task: the line is parsed; a sample is handed to
\* send, anything else is dropped and the loop goes round.
ReadLine(s, line) ==
    /\ CanRead(s)
    /\ LET r == line_result(s, line) IN
       /\ last_op' = [op |-> "read_line", src |-> s, line |-> line, parsed |-> r]
       /\ IF r # Absent
          THEN /\ budget > 0
               /\ budget' = budget - 1
               /\ pending' = [pending EXCEPT ![s] =
                                 Some(Msg(sample_kind(s), s, Len(emitted[s]) + 1, r[1]))]
               /\ pc' = [pc EXCEPT ![s] = "send"]
          ELSE UNCHANGED <<budget, pending, pc>>
    /\ UNCHANGED <<now, uiVars, storeVars, error, app_pc, rx, chan, child, query_pids, hung,
                   emitted, applied, applied_kinds, spawned, stream_end,
                   send_failed, topo_queries, last_query, pushes>>

\* The two reader tasks, whose streams neither end nor fail, and the
\* consumer; the periodic task never runs.
NextLines ==
    \/ QueryTopologyOk
    \/ SpawnOk
    \/ DrawAndPoll
    \/ DrainApply
    \/ DrainEmpty
    \/ RunReturns
    \/ \E s \in Streams : \E line \in LinesOf(s) : ReadLine(s, line)
    \/ \E s \in Streams : Send(s)

SpecLines == InitLean /\ [][NextLines]_vars

\* The fields of GpuSample after gpu_idx, in the order of the columns.
DmonFields ==
    <<"power_w", "gpu_temp_c", "mem_temp_c", "sm_util", "mem_util", "enc_util",
      "dec_util", "jpg_util", "ofa_util", "mem_clock_mhz", "gpu_clock_mhz">>

\* The dmon reader has just parsed a line of at least 12 fields whose first
\* field is a number.
DmonDataLineRead ==
    /\ last_op.op = "read_line"
    /\ last_op.src = "dmon"
    /\ Len(last_op.line.parts) >= 12
    /\ last_op.line.parts[1] \in DOMAIN NumValue

\* C29. A device-metric line of at least 12 fields with a numeric device
\* index parses to a record whose index is that number and whose field k
\* (1..11) is absent when token k is "-" and is the token's number when the
\* token is a number; the line "0 69 13 - 100 30 0 0 - - 3615 1531" gives
\* index 0, power 69, GPU temperature 13, no memory temperature, SM 100,
\* memory 30, encoder 0, decoder 0, no JPEG, no optical flow, memory clock
\* 3615 and core clock 1531.
C29_DmonLineParsed ==
    /\ DmonDataLineRead =>
          /\ last_op.parsed # Absent
          /\ last_op.parsed[1].gpu_idx = NumValue[last_op.line.parts[1]]
          /\ \A k \in 1..11 :
                LET tok == last_op.line.parts[k + 1]
                    field == last_op.parsed[1][DmonFields[k]]
                IN /\ tok = "-" => field = None
                   /\ tok \in DOMAIN NumValue => field = NumValue[tok]
    /\ GpuSample_parse_line(Line(FALSE, ExampleParts))
         = Some([gpu_idx |-> 0, power_w |-> 69, gpu_temp_c |-> 13,
                 mem_temp_c |-> None, sm_util |-> 100, mem_util |-> 30,
                 enc_util |-> 0, dec_util |-> 0, jpg_util |-> None,
                 ofa_util |-> None, mem_clock_mhz |-> 3615,
                 gpu_clock_mhz |-> 1531])

\* C29 witness: the example line with the sentinel moved to the power column
\* was read, parsed, sent and applied to the store.
C29_FlippedLineApplied ==
    /\ DmonDataLineRead
    /\ last_op.line.parts[2] = "-"
    /\ last_op.line.parts[3] = "13"
    /\ 0 \in DOMAIN gpus
    /\ gpus[0][1].sample = last_op.parsed[1]

\* The line is blank, starts with '#', or has fewer fields than the format
\* of its stream requires.
NotDataLine(s, line) ==
    \/ line.parts = <<>>
    \/ starts_with_hash(line.parts[1])
    \/ Len(line.parts) < (IF s = "dmon" THEN 12 ELSE 10)

\* C30, the parser: a blank line, a '#' line and a short line are no data.
C30_ClassifiedNotData ==
    (last_op.op = "read_line" /\ NotDataLine(last_op.src, last_op.line))
        => last_op.parsed = Absent

\* C30, the reader: reading such a line emits no message and no error,
\* leaves the error slot and the store as they were, and leaves the reader
\* at the top of its loop, reading the next line.
C30_NotDataStep ==
    [][(/\ last_op'.op = "read_line"
        /\ last_op' # last_op
        /\ NotDataLine(last_op'.src, last_op'.line))
         => /\ UNCHANGED <<storeVars, error, chan, pending, emitted, child,
                           stream_end>>
            /\ pc[last_op'.src] = "read"
            /\ pc'[last_op'.src] = "read"]_vars

\* C30. Lines that are no data are dropped without a trace.
C30_NotDataDropped == []C30_ClassifiedNotData /\ C30_NotDataStep

\* C30 witness: a short line of dmon was read after a sample was applied;
\* the reader is reading and has nothing to send.
C30_ShortLineAfterSample ==
    /\ last_op.op = "read_line"
    /\ last_op.src = "dmon"
    /\ Len(last_op.line.parts) = 11
    /\ total_samples = 1
    /\ pc["dmon"] = "read"
    /\ pending["dmon"] = Absent
    /\ chan = <<>>

\* The optional columns of ProcessSample, by the position of their token.
PmonFields == <<"sm_util", "mem_util", "enc_util", "dec_util">>

\* A token that str::parse::<u32> rejects.
NotANumber(tok) == tok \notin DOMAIN NumValue

\* A reader has just parsed a line that is long enough for its stream and
\* is neither blank nor a '#' line.
FullLineRead ==
    /\ last_op.op = "read_line"
    /\ ~NotDataLine(last_op.src, last_op.line)

\* C31, the device-metric parser: an index that is no number discards the
\* line; otherwise the record has all twelve fields, and every column whose
\* token is no number is absent.
C31_DmonKeyAndOptional ==
    (FullLineRead /\ last_op.src = "dmon") =>
        LET parts == last_op.line.parts IN
        IF NotANumber(parts[1]) THEN last_op.parsed = Absent
        ELSE /\ last_op.parsed # Absent
             /\ DOMAIN last_op.parsed[1]
                  = {"gpu_idx"} \cup {DmonFields[k] : k \in 1..11}
             /\ \A k \in 1..11 :
                   NotANumber(parts[k + 1]) => last_op.parsed[1][DmonFields[k]] = None

\* C31, the process-metric parser: an index or a pid that is no number
\* discards the line; otherwise the record has all its fields, and each of
\* the four utilisation columns whose token is no number is absent.
C31_PmonKeyAndOptional ==
    (FullLineRead /\ last_op.src = "pmon") =>
        LET parts == last_op.line.parts IN
        IF NotANumber(parts[1]) \/ NotANumber(parts[2]) THEN last_op.parsed = Absent
        ELSE /\ last_op.parsed # Absent
             /\ DOMAIN last_op.parsed[1]
                  = {"gpu_idx", "pid", "process_type", "command"}
                    \cup {PmonFields[k] : k \in 1..4}
             /\ \A k \in 1..4 :
                   NotANumber(parts[k + 3]) => last_op.parsed[1][PmonFields[k]] = None

\* C31. A key field (device index, pid) that is no number discards the whole
\* line; an optional field that is no number gives a record with that field
\* absent; the result is never a partial record.
C31_KeyDiscardsOptionalAbsent == C31_DmonKeyAndOptional /\ C31_PmonKeyAndOptional

\* C31 witness: a device-metric line whose power column reads "N/A" was
\* parsed, sent and applied, with the power absent and the temperature kept.
C31_BadOptionalApplied ==
    /\ FullLineRead
    /\ last_op.src = "dmon"
    /\ last_op.line.parts[2] = "N/A"
    /\ 0 \in DOMAIN gpus
    /\ gpus[0][1].sample.power_w = None
    /\ gpus[0][1].sample.gpu_temp_c = 13

\* C31, second case reached: a process-metric line whose pid is the
\* sentinel was read and dropped.
C31_BadPidDropped ==
    /\ FullLineRead
    /\ last_op.src = "pmon"
    /\ last_op.line.parts[2] = "-"
    /\ last_op.parsed = Absent
    /\ pc["pmon"] = "read"

\* ======================================================================
\* The device-info query (process.rs:42-63, parser.rs:265-304). A line of
\* the CSV output is the sequence of its comma-separated, trimmed fields.
\* ======================================================================
MaxRows == 3          \* lines of output of one device-info query

\* s.replace("[Not Supported]", "").replace("[N/A]", "").parse().ok() for
\* the fields that occur: a number, or Absent.
csv_number(field) ==
    CASE field = "24564" -> Some(24564)
      [] field = "45" -> Some(45)
      [] OTHER -> Absent

\* Option::unwrap_or(0)
unwrap_or_0(opt) == IF opt = Absent THEN 0 ELSE opt[1]

\* GpuInfo::parse_csv_line(line, index), with the fields name, uuid,
\* memory.total, temperature.gpu and pstate of the record.
GpuInfo_parse_csv_line(parts, index) ==
    IF Len(parts) < 16 THEN Absent
    ELSE Some([index |-> index,
               name |-> parts[1],
               uuid |-> parts[2],
               memory_total_mib |-> unwrap_or_0(csv_number(parts[4])),
               temperature_c |-> IF csv_number(parts[9]) = Absent THEN None
                                 ELSE csv_number(parts[9])[1],
               pstate |-> parts[16]])

\* The loop of query_gpu_info from line k (1-based) on:
\* for (idx, line) in stdout.lines().enumerate(), idx = k - 1.
RECURSIVE gpu_info_rows(_, _)
gpu_info_rows(stdout, k) ==
    IF k > Len(stdout) THEN <<>>
    ELSE LET info == GpuInfo_parse_csv_line(stdout[k], k - 1)
         IN (IF info = Absent THEN <<>> ELSE <<info[1]>>)
            \o gpu_info_rows(stdout, k + 1)

\* As if the rows were numbered after the lines that do not parse were
\* dropped (filter_map, then enumerate).
query_gpu_info_numbers_parsed_rows(stdout) ==
    LET kept == SelectSeq(stdout, LAMBDA parts : Len(parts) >= 16)
    IN [k \in 1..Len(kept) |-> GpuInfo_parse_csv_line(kept[k], k - 1)[1]]

\* NvidiaMonitor::query_gpu_info, from the output of the tool on.
query_gpu_info(stdout) == gpu_info_rows(stdout, 1)

\* ---- the lines the tool prints
InfoRow(name, uuid, mem, temp) ==
    <<name, uuid, "550.54", mem, "1024", "23540", "350.00", "69.10", temp,
      "[N/A]", "4", "4", "16", "16", "30", "P2">>

InfoLines ==
    {InfoRow("RTX 3090", "GPU-aaa", "24564", "45"),
     InfoRow("Tesla P40", "GPU-bbb", "[N/A]", "[Not Supported]"),
     <<"Unable to determine the device handle">>}

RECURSIVE SeqsUpTo(_, _)
SeqsUpTo(S, n) ==
    IF n = 0 THEN {<<>>}
    ELSE SeqsUpTo(S, n - 1)
         \cup {Append(s, x) : s \in {t \in SeqsUpTo(S, n - 1) : Len(t) = n - 1},
                              x \in S}

InfoOutputs == SeqsUpTo(InfoLines, MaxRows)

\* One cycle's device-info query and the application of its message
\* (process.rs:191-195, app.rs:114-116).
QueryAndUpdateGpuInfo(stdout) ==
    /\ gpu_info' = update_gpu_info(gpu_info, query_gpu_info(stdout))
    /\ last_op' = [op |-> "query_gpu_info", stdout |-> stdout,
                   info |-> query_gpu_info(stdout)]
    /\ UNCHANGED <<now, gpus, max_samples, total_samples, processes, compute_apps,
                   process_sys_info, topology, pipeVars, uiVars, pushes>>

NextInfo == \E stdout \in InfoOutputs : QueryAndUpdateGpuInfo(stdout)

SpecInfo == InitJoin /\ [][NextInfo]_vars

\* C32. The index of each parsed DeviceInfo is the zero-based position of
\* its row in the output of the query, the parsed rows come in ascending
\* index order, and the k-th output row (k counted from 0) is stored under
\* device index k.
C32_IndexIsRowPosition ==
    last_op.op = "query_gpu_info" =>
        LET stdout == last_op.stdout
            info == last_op.info
        IN /\ \A j \in 1..Len(info) :
                 /\ info[j].index + 1 \in 1..Len(stdout)
                 /\ Len(stdout[info[j].index + 1]) >= 16
                 /\ info[j].name = stdout[info[j].index + 1][1]
                 /\ info[j].uuid = stdout[info[j].index + 1][2]
           /\ \A j \in 1..(Len(info) - 1) : info[j].index < info[j + 1].index
           /\ \A k \in 1..Len(stdout) :
                 Len(stdout[k]) >= 16 =>
                     /\ \E j \in 1..Len(info) : info[j].index = k - 1
                     /\ (k - 1) \in DOMAIN gpu_info
                     /\ gpu_info[k - 1].index = k - 1
                     /\ gpu_info[k - 1].uuid = stdout[k][2]

\* C32 witness: the output held a line that is no row before the row of a
\* device; the device is stored under the position of its row, 1.
C32_RowAfterOtherLine ==
    /\ last_op.op = "query_gpu_info"
    /\ Len(last_op.stdout) = 2
    /\ Len(last_op.stdout[1]) < 16
    /\ Len(last_op.info) = 1
    /\ last_op.info[1].index = 1
    /\ gpu_info[1].uuid = "GPU-aaa"
    /\ gpu_info[1].memory_total_mib = 24564

\* ======================================================================
\* The program with tools that hang, the topology tool included, and a
\* user who presses the quit key.
\* ======================================================================
\* `nvidia-smi topo -m` neither prints nor exits: query_topology().await
\* (app.rs:76) never returns, and App::run never reaches its loop.
HangTopology ==
    /\ app_pc = "topology"
    /\ app_pc' = "awaiting_topology"
    /\ UNCHANGED <<now, uiVars, storeVars, error, rx, chan, child, pc, pending, query_pids,
                   hung, budget, emitted, applied, applied_kinds, spawned,
                   stream_end, send_failed, topo_queries, last_query, pushes,
                   last_op>>

\* The start of App::run: the topology query and the spawn return.
StartUp ==
    \/ QueryTopologyOk
    \/ QueryTopologyErr
    \/ QueryTopologyExitErr
    \/ SpawnOk
    \/ SpawnFailsAtDmon
    \/ SpawnFailsAtPmon

NextQuit ==
    \/ NextStart
    \/ HangTopology
    \/ \E tool \in Tools : Hang(tool)

\* Fair as FairLean; the calls of the start-up that return do return, and the
\* quit key, pressed by the user, is read by handle_events at some turn of
\* the loop (app.rs:88, 100).
FairQuit ==
    /\ InitLean
    /\ [][NextQuit]_vars
    /\ WF_vars(StartUp)
    /\ WF_vars(Consumer)
    /\ SF_vars(RunReturns)
    /\ \A t \in Tasks : WF_vars(Send(t))
    /\ \A s \in Streams : WF_vars(KilledEof(s))
    /\ WF_vars(QueryStep)

\* C33. The consumer never blocks on a slow or silent external tool: an
\* empty channel sends it back to rendering and input handling, and the quit
\* key is always handled in the end.
C33_QuitAlwaysHandled ==
    /\ [](app_pc = "drain" => ENABLED (DrainApply \/ DrainEmpty))
    /\ <>(app_pc = "returned")

\* C33 (the part the code keeps): draining never waits, and once the
\* topology query has returned the quit key is handled in the end, whatever
\* tool hangs afterwards.
C33_QuitHandledAfterStartUp ==
    /\ [](app_pc = "drain" => ENABLED (DrainApply \/ DrainEmpty))
    /\ (app_pc \in {"spawn", "draw", "drain", "failed"}) ~> (app_pc = "returned")

\* The consumer is back at rendering with an empty channel while a tool
\* hangs.
C33_RenderingWhileToolHangs ==
    /\ app_pc = "draw"
    /\ hung # "none"
    /\ chan = <<>>
    /\ rx = "alive"

\* The terminal message of the dmon reader (Exited("dmon") or its Error) has
\* been applied: the reader ended, every send of it returned Ok, and the
\* consumer applied as many of its messages as it emitted.
DmonTerminalApplied ==
    /\ stream_end["dmon"] # "none"
    /\ pc["dmon"] = "done"
    /\ ~send_failed["dmon"]
    /\ applied["dmon"].count = Len(emitted["dmon"])

\* C34, the state part: once the terminal message of the dmon reader has
\* been applied the error slot is not empty.
C34_SlotFilled == DmonTerminalApplied => error # Absent

\* C34, the step part: from then on no DeviceSample is applied, and the slot
\* changes only to hold another error.
C34_NoSampleAfterTerminal ==
    [][DmonTerminalApplied =>
          /\ total_samples' = total_samples
          /\ error' # Absent
          /\ DmonTerminalApplied']_vars

\* C34. After the terminal message of the device monitor the error slot is
\* never empty again.
C34_ErrorStaysAfterDmonEnd == []C34_SlotFilled /\ C34_NoSampleAfterTerminal

\* C34 witness: the dmon reader's terminal message was applied after one of
\* its samples, and later the pmon reader's Exited overwrote the slot after a
\* ProcessSample had been applied.
C34_OverwrittenByPmonExit ==
    /\ DmonTerminalApplied
    /\ total_samples > 0
    /\ "ProcessSample" \in applied_kinds
    /\ error = Some(<<"pmon", "exited">>)

\* ======================================================================
\* The periodic task over several cycles, with the consumer; the two
\* streams stay silent.
\* ======================================================================
CycleBudget == 4      \* data messages the one-shot tools yield in a run

CycleAppBatches ==
    {<<>>,
     <<[pid |-> 100, gpu_uuid |-> "GPU-aaa", vram_used_mib |-> 512]>>,
     <<[pid |-> 101, gpu_uuid |-> "GPU-aaa", vram_used_mib |-> 256]>>,
     <<[pid |-> 100, gpu_uuid |-> "GPU-aaa", vram_used_mib |-> 512],
       [pid |-> 101, gpu_uuid |-> "GPU-bbb", vram_used_mib |-> 256]>>}

\* query_compute_apps().await gave Ok(apps) (process.rs:199-210): the pids of
\* the batch are collected and the batch is handed to send.
CycleComputeApps(apps) ==
    /\ pc["query"] = "q_apps"
    /\ budget > 0
    /\ budget' = budget - 1
    /\ last_query' = "exit_ok"
    /\ query_pids' = pids_of(apps)
    /\ pending' = [pending EXCEPT !["query"] =
                      Some(Msg("ComputeApps", "query", Len(emitted["query"]) + 1, apps))]
    /\ pc' = [pc EXCEPT !["query"] = "s_apps"]
    /\ UNCHANGED <<now, uiVars, storeVars, error, app_pc, rx, chan, child, hung, emitted,
                   applied, applied_kinds, spawned, stream_end, send_failed,
                   topo_queries, pushes, last_op>>

NextCycle ==
    \/ QueryTopologyOk
    \/ SpawnOk
    \/ DrawAndPoll
    \/ DrainApply
    \/ DrainEmpty
    \/ IntervalTick
    \/ QueryGpuInfoErr
    \/ \E apps \in CycleAppBatches : CycleComputeApps(apps)
    \/ QueryComputeAppsErr
    \/ \E infos \in ps_results(query_pids) : QueryProcessInfoOk(infos)
    \/ QueryProcessInfoErr
    \/ Send("query")

InitCycle == App_new /\ DataStore_new(DEFAULT_HISTORY) /\ budget = CycleBudget

SpecCycle == InitCycle /\ [][NextCycle]_vars

\* The pids of the rows of the compute-app list of the store.
StoredAppPids == {compute_apps[i].pid : i \in DOMAIN compute_apps}

\* C35. Right after a ProcessSystemInfo batch is applied, every pid of the
\* sys-info map is the pid of a row of the compute-app list of the store;
\* applying a ComputeApps batch leaves the sys-info map as the previous
\* cycle left it.
C35_SysInfoWithinComputeApps ==
    [][applied' # applied =>
          /\ Head(chan).kind = "ProcessSystemInfo" =>
                /\ DOMAIN process_sys_info'
                     \subseteq {compute_apps'[i].pid : i \in DOMAIN compute_apps'}
                /\ DOMAIN process_sys_info'
                     = {Head(chan).body[i].pid : i \in DOMAIN Head(chan).body}
          /\ Head(chan).kind = "ComputeApps" =>
                process_sys_info' = process_sys_info
      ]_vars

\* C35 witness: the second cycle's ProcessSystemInfo was applied: the map
\* holds pid 101 of the second ComputeApps batch and no longer pid 100.
C35_SecondCycleApplied ==
    /\ applied["query"].count = 4
    /\ StoredAppPids = {101}
    /\ DOMAIN process_sys_info = {101}

\* C35, between the two messages of a cycle: the compute-app list is the
\* second cycle's, the sys-info map still the first cycle's.
C35_BetweenTheTwoMessages ==
    /\ applied["query"].count = 3
    /\ StoredAppPids = {101}
    /\ DOMAIN process_sys_info = {100}

\* ----------------------------------------------------------------------
\* The one-shot invocations in flight: the topology query App::run awaits,
\* and the invocation the periodic task awaits.
QueryPcs == {"q_info", "q_apps", "q_ps"}

OneShotInFlight ==
    (IF app_pc \in {"topology", "awaiting_topology"} THEN {"topo"} ELSE {})
    \cup (IF pc["query"] \in QueryPcs THEN {pc["query"]} ELSE {})

\* The steps of the periodic task, in the order of its loop body.
CycleSteps ==
    {<<"unspawned", "tick">>, <<"tick", "q_info">>,
     <<"q_info", "s_info">>, <<"q_info", "q_apps">>,
     <<"s_info", "q_apps">>, <<"s_info", "done">>,
     <<"q_apps", "s_apps">>, <<"q_apps", "tick">>,
     <<"s_apps", "q_ps">>, <<"s_apps", "done">>,
     <<"q_ps", "s_ps">>, <<"q_ps", "tick">>,
     <<"s_ps", "tick">>, <<"s_ps", "done">>}

\* C36. At most one one-shot process is in flight at any time, none while
\* a send of the periodic task is under way; the periodic task goes through
\* device info, VRAM allocations and OS-process stats in that order, and it
\* starts a cycle only from the interval tick, when every message of the
\* cycles before was handed to the channel.
C36_CyclesNeverOverlap ==
    /\ [](/\ Cardinality(OneShotInFlight) <= 1
          /\ pc["query"] \in QueryPcs \cup {"tick"} => pending["query"] = Absent)
    /\ [][/\ pc'["query"] # pc["query"] => <<pc["query"], pc'["query"]>> \in CycleSteps
          /\ (pc'["query"] = "q_info" /\ pc["query"] # "q_info") =>
                /\ pc["query"] = "tick"
                /\ pending["query"] = Absent
                /\ Len(emitted["query"]) = applied["query"].count + Len(Queued("query"))
       ]_vars

\* C36 witness: the OS-process query of the second cycle is in flight after
\* the first cycle sent both of its batches.
C36_SecondCycleQuery ==
    /\ pc["query"] = "q_ps"
    /\ query_pids # {}
    /\ Len(emitted["query"]) = 3
    /\ OneShotInFlight = {"q_ps"}

\* ======================================================================
\* The program when a streaming tool cannot be launched.
\* ======================================================================
NextFail ==
    \/ QueryTopologyOk
    \/ QueryTopologyErr
    \/ QueryTopologyExitErr
    \/ SpawnFailsAtDmon
    \/ SpawnFailsAtPmon
    \/ Tick
    \/ \E s \in Streams : KilledEof(s)
    \/ \E t \in Tasks : Send(t)
    \/ RunReturns

\* The runtime runs the reader task that is ready: the stream of the killed
\* child gives end-of-stream and the send returns.
FairFail ==
    /\ InitLean
    /\ [][NextFail]_vars
    /\ \A s \in Streams : WF_vars(KilledEof(s))
    /\ \A t \in Tasks : WF_vars(Send(t))

\* NvidiaMonitor::spawn returned Err: App::run is past the spawn and pmon
\* was never started.
SpawnFailed ==
    /\ app_pc \in {"failed", "returned"}
    /\ spawned["pmon"] = 0

\* The spawn failure as App::run stores it (e.to_string()).
SpawnFailure ==
    IF spawned["dmon"] = 0 THEN Some(<<"Failed to spawn nvidia-smi dmon">>)
    ELSE Some(<<"Failed to spawn nvidia-smi pmon">>)

\* C37. When a streaming process cannot be launched the error slot holds the
\* spawn failure, no message is applied (histories, process map and the
\* three periodic snapshots stay empty), no streaming child is left running,
\* no other task exists, the reader of a child that was started stops, and
\* App::run only waits in its render loop for the quit.
C37_SpawnFailureHandled ==
    /\ [](SpawnFailed =>
            /\ error = SpawnFailure
            /\ \A t \in Tasks : applied[t].count = 0
            /\ applied_kinds = {}
            /\ gpus = EmptyMap /\ total_samples = 0
            /\ processes = EmptyMap
            /\ compute_apps = <<>>
            /\ process_sys_info = EmptyMap
            /\ gpu_info = EmptyMap
            /\ \A s \in Streams : child[s] # "running"
            /\ pc["pmon"] = "unspawned" /\ pc["query"] = "unspawned"
            /\ rx = "dropped")
    /\ [][app_pc = "failed" => app_pc' \in {"failed", "returned"}]_vars
    /\ (SpawnFailed ~> pc["dmon"] \in {"unspawned", "done"})

\* C37 witness: pmon could not be launched after dmon was; the dmon child
\* was killed, its reader saw the end of the stream, its send failed and it
\* stopped, while App::run stays in the render loop.
C37_DmonReaderStopped ==
    /\ app_pc = "failed"
    /\ spawned = [dmon |-> 1, pmon |-> 0]
    /\ child["dmon"] = "killed"
    /\ pc["dmon"] = "done"
    /\ send_failed["dmon"]
    /\ error = Some(<<"Failed to spawn nvidia-smi pmon">>)

\* ======================================================================
\* The key handler of App (app.rs:140-200) beside the dmon stream.
\* ======================================================================
\* The key presses told apart by handle_events; "other" is any other key.
Keys == {"q", "Esc", "Enter", "Tab", "Up", "k", "Down", "j", "1", "2", "i", "t", "other"}

\* usize::saturating_sub
saturating_sub(a, b) == IF a >= b THEN a - b ELSE 0

\* ViewMode::next
ViewMode_next(v) == IF v = "Dashboard" THEN "Charts" ELSE "Dashboard"

\* Whether handle_events returns Ok(true) for the key: q with an overlay
\* open, q or Esc without.
key_quits(key, o) ==
    IF o # "None" THEN key = "q" ELSE key \in {"q", "Esc"}

\* self.overlay after the key.
overlay_after(key, o) ==
    IF o # "None"
    THEN CASE key \in {"Esc", "Enter"} -> "None"
           [] key = "i" -> IF o = "Info" THEN "None" ELSE "Info"
           [] key = "t" -> IF o = "Topology" THEN "None" ELSE "Topology"
           [] OTHER -> o
    ELSE CASE key = "i" -> "Info"
           [] key = "t" -> "Topology"
           [] OTHER -> o

\* self.view_mode after the key.
view_mode_after(key, o, v) ==
    IF o # "None" THEN v
    ELSE CASE key = "Tab" -> ViewMode_next(v)
           [] key = "1" -> "Dashboard"
           [] key = "2" -> "Charts"
           [] OTHER -> v

\* As if Down moved on without looking at the number of devices.
selected_gpu_after_down_unbounded(key, o, sel, n) ==
    IF o # "None" THEN sel
    ELSE CASE key \in {"Up", "k"} -> IF sel > 0 THEN sel - 1 ELSE sel
           [] key \in {"Down", "j"} -> sel + 1
           [] OTHER -> sel

\* self.selected_gpu after the key; n is self.data.gpu_indices().len().
selected_gpu_after(key, o, sel, n) ==
    IF o # "None" THEN sel
    ELSE CASE key \in {"Up", "k"} -> IF sel > 0 THEN sel - 1 ELSE sel
           [] key \in {"Down", "j"} ->
                  LET max_gpu == saturating_sub(n, 1)
                  IN IF sel < max_gpu THEN sel + 1 ELSE sel
           [] OTHER -> sel

\* handle_events read a key press, in the loop of App::run or in the loop
\* after a spawn failure: Ok(true) ends App::run (its locals are dropped as
\* in RunReturns), Ok(false) goes on to the drain, or round the failure
\* loop.
HandleEvents(key) ==
    /\ app_pc \in {"draw", "failed"}
    /\ IF key_quits(key, overlay)
       THEN /\ app_pc' = "returned"
            /\ rx' = "dropped"
            /\ chan' = <<>>
            /\ child' = [s \in Streams |->
                            IF child[s] = "running" THEN "killed" ELSE child[s]]
            /\ UNCHANGED uiVars
       ELSE /\ app_pc' = IF app_pc = "draw" THEN "drain" ELSE "failed"
            /\ overlay' = overlay_after(key, overlay)
            /\ view_mode' = view_mode_after(key, overlay, view_mode)
            /\ selected_gpu' =
                   selected_gpu_after(key, overlay, selected_gpu, Len(gpu_indices))
            /\ UNCHANGED <<rx, chan, child>>
    /\ UNCHANGED <<now, storeVars, error, pc, pending, query_pids, hung, budget, emitted,
                   applied, applied_kinds, spawned, stream_end, send_failed,
                   topo_queries, last_query, pushes, last_op>>

\* nvidia-smi dmon prints a line of any of the devices.
ReadDeviceSample ==
    \E g \in GpuIdx : ReadSample("dmon", [gpu_idx |-> g, sm_util |-> 42])

NextKeys ==
    \/ QueryTopologyOk
    \/ SpawnOk
    \/ SpawnFailsAtDmon
    \/ DrawAndPoll
    \/ \E key \in Keys : HandleEvents(key)
    \/ DrainApply
    \/ DrainEmpty
    \/ ReadDeviceSample
    \/ Send("dmon")

SpecKeys == Init /\ [][NextKeys]_vars

\* C38. The selected position is 0 while no device was seen and below the
\* number of enumerated devices afterwards; no applied message moves it; Up
\* at position 0 and Down at the last position leave it where it is, and no
\* key pressed while an overlay is open changes it.
C38_SelectionWithinDevices ==
    /\ [](/\ selected_gpu \in Nat
          /\ gpu_indices = <<>> => selected_gpu = 0
          /\ gpu_indices # <<>> => selected_gpu < Len(gpu_indices))
    /\ [][/\ applied' # applied => selected_gpu' = selected_gpu
          /\ \A key \in Keys :
                HandleEvents(key) =>
                   /\ overlay # "None" => selected_gpu' = selected_gpu
                   /\ (key \in {"Up", "k"} /\ selected_gpu = 0) =>
                         selected_gpu' = selected_gpu
                   /\ (key \in {"Down", "j"}
                       /\ selected_gpu = saturating_sub(Len(gpu_indices), 1)) =>
                         selected_gpu' = selected_gpu
       ]_vars

\* C38 witness: with two devices seen the selection was moved to the last
\* position and an overlay was opened on it.
C38_LastSelectedUnderOverlay ==
    /\ gpu_indices = <<0, 1>>
    /\ selected_gpu = 1
    /\ overlay = "Topology"
    /\ app_pc = "draw"

====
